---- MODULE Spec2Model ----
(***************************************************************************)
(* Model of the region scheduler of the Database Insights exporter:        *)
(* SingleRegionManager.fetchMetricBatchesInParallel and                    *)
(* SingleRegionManager.collectMetricsWithQueue, together with the part of  *)
(* MetricManager.CollectMetricsForBatch and of the formatter that the      *)
(* scheduler's goroutines block in.  One behaviour is one scrape: the      *)
(* catalog fan-out, then the producer / worker-pool queue drain, then the  *)
(* aggregation of the recorded errors.  The caches the scheduler works on  *)
(* are modelled next to it: RDSInstanceManager.GetInstances with its       *)
(* instance cache, MetricManager.getMetrics with the metrics cache of one  *)
(* instance, and the HTTP request whose handler starts the scrape.         *)
(***************************************************************************)
EXTENDS Integers, Sequences, FiniteSets, TLC

\* ---------------------------------------------------------------- bounds
NumInstances == 2
MaxBatches == 6
\* srm.maxConcurrency, the configured processing concurrency
maxConcurrency == 1
\* configuration.Discovery.Instances.MaxInstances
maxInstances == 2
\* instanceManager.InstanceTTL and metrics.MetadataTTL, in clock ticks
InstanceTTL == 2
MetadataTTL == 2
\* the clock ticks a behaviour covers
MaxElapsed == 4

\* ------------------------------------------------------ program constants
\* queueSize := srm.maxConcurrency * 10
QueueFactor == 10

\* ------------------------------------------------------------ error values
Nil == <<"nil", 0, 0>>
CtxErr == <<"context canceled", 0, 0>>
CatalogErr(id) == <<"catalog", id, 0>>
DataErr(req) == <<"data", req.instance, req.metricsBatch>>

\* -------------------------------------------------------------- the inputs
\* the instances handed to collectMetricsWithQueue; identifiers differ from
\* slice indices
instances == [i \in 1..NumInstances |-> 100 + i]
InstanceIds == {instances[i] : i \in 1..NumInstances}
Requests == [instance : InstanceIds, metricsBatch : 1..MaxBatches]
NoReq == [instance |-> 0, metricsBatch |-> 0]
\* the numbers of batches a catalog can consist of: none, one, many
BatchCounts == {0, 1, MaxBatches}
\* the batches of an instance whose data fetch can fail
FailingBatches == {1}

VARIABLES
    cancelled,       \* ctx.Done() is closed
    mainpc,          \* position of collectMetricsWithQueue itself
    catpc,           \* position of each catalog goroutine
    semaphore,       \* number of tokens in the semaphore channel
    results,         \* results []instanceBatches
    getCalls,        \* history: GetMetricBatches calls per instance index
    requestQueue,    \* buffered channel of metricRequest
    closed,          \* requestQueue is closed
    prodpc,          \* position of the producer goroutine
    prodI,           \* producer: index into batchResults
    prodJ,           \* producer: next batch of batchResults[prodI]
    wpc,             \* position of each worker goroutine
    wreq,            \* the request whose data a worker is fetching
    errors,          \* errors []error
    ret,             \* value returned by collectMetricsWithQueue
    collectCalls,    \* history: CollectMetricsForBatch calls per request
    cancelOutstanding, \* history: work was outstanding when ctx was cancelled
    requestCancelled, \* r.Context() of the HTTP request is done
    now,             \* time.Now()
    instanceFilter,  \* configuration.Discovery.Instances.Filter (index)
    Instances,       \* instanceManager.Instances
    InstancesLastUpdated, \* instanceManager.InstancesLastUpdated
    ipc,             \* position of each scrape in GetInstances
    discovered,      \* GetInstances: the local variable instances
    enumerated,      \* history: the provider enumeration a scrape received
    cacheFrom,       \* history: the enumeration the cached list was made of
    returned,        \* history: the last return of GetInstances
    metricFilter,    \* configuration.Discovery.Metrics.Filter (index)
    MetricsDetails,  \* metrics.MetricsDetails of one instance
    MetricsList,     \* metrics.MetricsList
    MetricsLastUpdated, \* metrics.MetricsLastUpdated
    mpc,             \* position of each scrape's catalog task in getMetrics
    filteredMetrics, \* getMetrics: the local variable filteredMetrics
    filteredMetricList, \* getMetrics: the local variable filteredMetricList
    listed,          \* history: the provider listing a catalog task received
    mreturned,       \* history: the last return of GetMetricBatches
    retry,           \* a call of WithRetry: its parameters and locals
    filt,            \* a call of ShouldInclude: the filter, obj and the result
    registry,        \* the PerEngineMetricRegistry and the tasks that use it
    batch,           \* a call of BatchMetricNames: parameters and result
    collect,         \* a call of CollectMetricsForBatch: locals and result
    handler,         \* a request in metricsHandler: parameter and answer
    config,          \* the loading of config.yml: concurrency as configured and parsed
    stats,           \* a call of determineIncludedStatistics: parameters and result
    selection,       \* a call of CollectMetricsForInstances: parameters and fetches
    caches,          \* the two caches of an instance that stays discovered, and the clock
    multi            \* a call of MultiRegionManager.CollectMetrics: the regions and the calls

schedVars == <<cancelled, mainpc, catpc, semaphore, results,
               getCalls, requestQueue, closed, prodpc, prodI, prodJ, wpc, wreq,
               errors, ret, collectCalls, cancelOutstanding>>

instVars == <<instanceFilter, Instances, InstancesLastUpdated, ipc,
              discovered, enumerated, cacheFrom, returned>>

metVars == <<metricFilter, MetricsDetails, MetricsList, MetricsLastUpdated,
             mpc, filteredMetrics, filteredMetricList, listed, mreturned>>

\* the state of the utilities
utilVars == <<retry, filt, registry, batch, collect, handler, config, stats,
              selection, caches, multi>>

\* the state of the managers
managerVars == <<requestCancelled, now, instVars, metVars>>

\* what the steps of collectMetricsWithQueue leave alone
restVars == <<managerVars, utilVars>>

\* what a call of WithRetry leaves alone
outsideRetry == <<schedVars, managerVars, filt, registry, batch, collect,
                  handler, config, stats, selection, caches, multi>>

\* what a call of ShouldInclude leaves alone
outsideFilter == <<schedVars, managerVars, retry, registry, batch, collect,
                   handler, config, stats, selection, caches, multi>>

\* what the operations of the description registry leave alone
outsideRegistry == <<schedVars, managerVars, retry, filt, batch, collect,
                     handler, config, stats, selection, caches, multi>>

\* what a call of BatchMetricNames leaves alone
outsideBatch == <<schedVars, managerVars, retry, filt, registry, collect,
                  handler, config, stats, selection, caches, multi>>

\* what a call of CollectMetricsForBatch leaves alone
outsideCollect == <<schedVars, managerVars, retry, filt, registry, batch,
                    handler, config, stats, selection, caches, multi>>

\* what a request in metricsHandler leaves alone
outsideHandler == <<schedVars, managerVars, retry, filt, registry, batch,
                    collect, config, stats, selection, caches, multi>>

\* what the loading of config.yml leaves alone
outsideConfig == <<schedVars, managerVars, retry, filt, registry, batch,
                   collect, handler, stats, selection, caches, multi>>

\* what a call of determineIncludedStatistics leaves alone
outsideStats == <<schedVars, managerVars, retry, filt, registry, batch,
                  collect, handler, config, selection, caches, multi>>

\* what a call of CollectMetricsForInstances leaves alone
outsideSelection == <<schedVars, managerVars, retry, filt, registry, batch,
                      collect, handler, config, stats, caches, multi>>

\* what the two caches of an instance that stays discovered, and the clock leaves alone
outsideCaches == <<schedVars, managerVars, retry, filt, registry, batch,
                   collect, handler, config, stats, selection, multi>>

\* what a call of MultiRegionManager.CollectMetrics leaves alone
outsideMulti == <<schedVars, managerVars, retry, filt, registry, batch,
                  collect, handler, config, stats, selection, caches>>

vars == <<schedVars, restVars>>

catVars == <<catpc, semaphore, results, getCalls>>
prodVars == <<requestQueue, closed, prodpc, prodI, prodJ>>
workVars == <<wpc, wreq, collectCalls>>

\* ------------------------------------------------------------ code pieces
\* for i := 0; i < srm.maxConcurrency; i++ { go func() {...} }
WorkersMutant == 1..(maxConcurrency + 1)
Workers == 1..maxConcurrency

\* make(chan metricRequest, srm.maxConcurrency * 10)
queueSize == maxConcurrency * QueueFactor

\* case semaphore <- struct{}{}: is ready while the channel has room
SemaphoreReadyMutant(sem) == TRUE
SemaphoreReady(sem) == sem < maxConcurrency

\* results[index] = ...: the goroutine receives its index as an argument
ResultSlotMutant(index) == NumInstances
ResultSlot(index) == index

\* the worker loops after a failed batch (the error is only appended)
WorkerAfterErrorMutant == "exited"
WorkerAfterError == "idle"

\* defer close(requestQueue)
ProducerClosesMutant == FALSE
ProducerCloses == TRUE

\* on result.err != nil the producer records the error and continues
ProducerAfterCatalogError(i) == i + 1

\* if len(errors) > 0 { return errors[0] }; return nil
ReturnValueMutant(errs) == IF Len(errs) > 0 THEN errs[Len(errs)] ELSE Nil
ReturnValue(errs) == IF Len(errs) > 0 THEN errs[1] ELSE Nil

\* zero value of instanceBatches
ZeroResult == [instance |-> 0, batches |-> 0, err |-> Nil]

\* ------------------------------------------------------ the pattern filter
\* A regular expression is modelled by the set of the strings it matches, a
\* list of regular expressions by the set of these sets.
\* the filter keys that start with TagPrefix, with the tag key that follows
TagKeys == [filterKey \in {"tag.env", "tag.team"} |->
               IF filterKey = "tag.env" THEN "env" ELSE "team"]

\* fieldValue, exists = fieldMap[filterKey], else the tag of that name
FieldExists(obj, filterKey) ==
    \/ filterKey \in DOMAIN obj.fields
    \/ /\ filterKey \in DOMAIN TagKeys
       /\ TagKeys[filterKey] \in DOMAIN obj.tags

FieldValue(obj, filterKey) ==
    IF filterKey \in DOMAIN obj.fields
    THEN obj.fields[filterKey]
    ELSE obj.tags[TagKeys[filterKey]]

matchesPatterns(value, regexPatterns) ==
    \E pattern \in regexPatterns : value \in pattern

\* exclude patterns: any field that matches excludes the object
matchesAnyField(obj, patterns) ==
    \E filterKey \in DOMAIN patterns :
        /\ FieldExists(obj, filterKey)
        /\ matchesPatterns(FieldValue(obj, filterKey), patterns[filterKey])

\* include patterns: every field has to exist and to match
matchesAllFieldsMutant(obj, patterns) ==
    \E filterKey \in DOMAIN patterns :
        /\ FieldExists(obj, filterKey)
        /\ matchesPatterns(FieldValue(obj, filterKey), patterns[filterKey])
matchesAllFields(obj, patterns) ==
    \A filterKey \in DOMAIN patterns :
        /\ FieldExists(obj, filterKey)
        /\ matchesPatterns(FieldValue(obj, filterKey), patterns[filterKey])

\* PatternFilter.ShouldInclude
ShouldIncludeMutant(patternFilter, obj) ==
    IF obj.nil THEN FALSE
    ELSE IF DOMAIN patternFilter.IncludePatterns # {}
    THEN matchesAllFields(obj, patternFilter.IncludePatterns)
    ELSE ~matchesAnyField(obj, patternFilter.ExcludePatterns)
ShouldInclude(patternFilter, obj) ==
    IF obj.nil THEN FALSE
    ELSE IF /\ DOMAIN patternFilter.ExcludePatterns # {}
            /\ matchesAnyField(obj, patternFilter.ExcludePatterns)
    THEN FALSE
    ELSE IF DOMAIN patternFilter.IncludePatterns # {}
         THEN matchesAllFields(obj, patternFilter.IncludePatterns)
         ELSE TRUE

\* a Patterns map without entries
NoPatterns == [filterKey \in {} |-> {}]

\* the keys of the Patterns maps: a field, a tag that objects carry, and a
\* tag that no object carries
FilterKeys == {"engine", "tag.env", "tag.team"}

\* lists of regular expressions: the empty list (or one of nil patterns
\* only, which matchesPatterns skips), ^p, ^(m|t), and the list of the two
RegexLists ==
    { {},
      {{"postgres", "prod"}},
      {{"mysql", "test"}},
      {{"postgres", "prod"}, {"mysql", "test"}} }

\* the Patterns maps over these keys and lists
PatternMaps == UNION {[keys -> RegexLists] : keys \in SUBSET FilterKeys}

\* the arguments of ShouldInclude: nil, an object with a tag, an object
\* without tags, and an object with a field named like the key of its tag
FilterObjects ==
    << [nil |-> TRUE, fields |-> [field \in {} |-> ""],
        tags |-> [tagKey \in {} |-> ""]],
       [nil |-> FALSE, fields |-> [engine |-> "postgres"],
        tags |-> [env |-> "prod"]],
       [nil |-> FALSE, fields |-> [engine |-> "mysql"],
        tags |-> [tagKey \in {} |-> ""]],
       [nil |-> FALSE,
        fields |-> [field \in {"engine", "tag.env"} |->
                       IF field = "engine" THEN "postgres" ELSE "test"],
        tags |-> [env |-> "prod"]] >>

\* ---------------------------------------------------- the instance manager
\* the scrapes (HTTP requests) that call into the shared managers
Scrapes == {"scrape1", "scrape2"}

\* a nil pointer in a provider record; a nil *time.Time
NilString == "<nil>"
NilTime == -1

\* the zero time.Time, and the zero value of models.Instance
ZeroTime == 0
ZeroInstance ==
    [ResourceID |-> "", Identifier |-> "", Engine |-> "",
     CreationTime |-> ZeroTime]

\* models.NewEngine: five engines by exact match, Oracle and SQL Server by
\* case-insensitive substring, anything else is the empty Engine
ExactEngines ==
    {"aurora-postgresql", "aurora-mysql", "postgres", "mysql", "mariadb"}
ContainsOracle == {"oracle-ee", "Custom-Oracle-SE2"}
ContainsSQLServer == {"sqlserver-ex"}
NewEngine(engineString) ==
    IF engineString \in ExactEngines THEN engineString
    ELSE IF engineString \in ContainsOracle THEN "oracle"
    ELSE IF engineString \in ContainsSQLServer THEN "sqlserver"
    ELSE ""

\* Engine.IsValid
IsValid(engine) == engine \in ExactEngines \cup {"oracle", "sqlserver"}

\* a types.DBInstance as the provider enumerates it
DBInstance(identifier, resourceId, engine, pi, createTime) ==
    [DBInstanceIdentifier |-> identifier, DbiResourceId |-> resourceId,
     Engine |-> engine, DBInstanceStatus |-> "available",
     PerformanceInsightsEnabled |-> pi, InstanceCreateTime |-> createTime]

\* the enumerations DescribeDBInstancesPaginator can return: instances out
\* of creation order and with equal creation times, and records the
\* discovery has to drop
Enumerations ==
    << <<DBInstance("new", "db-N", "postgres", "true", 3),
         DBInstance("old-1", "db-A", "mysql", "true", 1),
         DBInstance("old-2", "db-B", "oracle-ee", "true", 1),
         DBInstance("old-3", "db-C", "aurora-mysql", "true", 1),
         DBInstance("mid", "db-M", "sqlserver-ex", "true", 2)>>,
       <<DBInstance("no-pi", "db-P", "postgres", "false", 1),
         DBInstance("nil-pi", "db-Q", "postgres", NilString, 1),
         DBInstance("docdb", "db-D", "docdb", "true", 1),
         DBInstance("no-rid", "", "mysql", "true", 1),
         DBInstance("", "db-E", "mysql", "true", 1),
         DBInstance("late", "db-L", "mysql", "true", 2)>>,
       <<DBInstance(NilString, "db-F", "mysql", "true", 1),
         DBInstance("nil-rid", NilString, "mysql", "true", 1),
         DBInstance("nil-engine", "db-G", NilString, "true", 1),
         DBInstance("nil-time", "db-H", "mysql", "true", NilTime),
         DBInstance("zero-time", "db-I", "mysql", "true", ZeroTime)>>,
       <<>> >>

\* the configured instance filters: none, an exclude of one identifier, and
\* an include whose expression also matches the empty identifier
InstanceFilters ==
    << [nil |-> TRUE, IncludePatterns |-> NoPatterns,
        ExcludePatterns |-> NoPatterns],
       [nil |-> FALSE, IncludePatterns |-> NoPatterns,
        ExcludePatterns |-> [identifier |-> {{"old-2"}}]],
       [nil |-> FALSE,
        IncludePatterns |->
            [identifier |-> {{"", "old-1", "old-3"}, {"new", "late"}}],
        ExcludePatterns |-> NoPatterns] >>

\* Instance.GetFilterableFields and Instance.GetFilterableTags
FilterableInstance(instance) ==
    [nil |-> FALSE,
     fields |-> [identifier |-> instance.Identifier,
                 engine |-> instance.Engine],
     tags |-> [tagKey \in {} |-> ""]]

\* ParsedInstancesConfig.ShouldIncludeInstance
ShouldIncludeInstance(instance) ==
    IF InstanceFilters[instanceFilter].nil
    THEN TRUE
    ELSE ShouldInclude(InstanceFilters[instanceFilter],
                       FilterableInstance(instance))

\* safeExtractInstanceFields returns no error
ExtractOk(record) ==
    /\ record.Engine # NilString
    /\ record.DBInstanceStatus # NilString
    /\ record.DbiResourceId # NilString
    /\ record.DBInstanceIdentifier # NilString
    /\ record.InstanceCreateTime # NilTime
    /\ record.InstanceCreateTime # ZeroTime

\* the models.Instance discoverInstances builds of a record: the zero value
\* unless Performance Insights is enabled and the engine is known
BuildInstance(record) ==
    IF /\ record.PerformanceInsightsEnabled = "true"
       /\ NewEngine(record.Engine) # ""
    THEN [ResourceID |-> record.DbiResourceId,
          Identifier |-> record.DBInstanceIdentifier,
          Engine |-> NewEngine(record.Engine),
          CreationTime |-> record.InstanceCreateTime]
    ELSE ZeroInstance

\* if instance.ResourceID == "" || instance.Identifier == "" { continue }
HasIdentityMutant(instance) == TRUE
HasIdentity(instance) == instance.ResourceID # "" /\ instance.Identifier # ""

\* the loop of discoverInstances appends the instance of a record
Appended(record) ==
    /\ ExtractOk(record)
    /\ ShouldIncludeInstance(BuildInstance(record))
    /\ HasIdentity(BuildInstance(record))

\* the slice discoverInstances has built when the loop ends
Collected(records) ==
    LET kept == SelectSeq(records, Appended)
    IN  [k \in 1..Len(kept) |-> BuildInstance(kept[k])]

\* sort.Slice(instances, by CreationTime.Before): the slice in ascending
\* order; sort.Slice is not a stable sort, so instances with equal
\* creation time can come out in any order
Arrangements(n) ==
    {p \in [1..n -> 1..n] : \A a, b \in 1..n : a # b => p[a] # p[b]}

sortSlice(s) ==
    {[k \in 1..Len(s) |-> s[p[k]]] :
        p \in {q \in Arrangements(Len(s)) :
                 \A a \in 1..(Len(s) - 1) :
                    ~(s[q[a + 1]].CreationTime < s[q[a]].CreationTime)}}

\* if len(instances) > maxInstances { instances[:maxInstances] }
TruncatedMutant(s) == s
Truncated(s) == IF Len(s) > maxInstances THEN SubSeq(s, 1, maxInstances) ELSE s

\* Instances == nil || InstancesLastUpdated.IsZero() ||
\*     time.Now().After(InstancesLastUpdated.Add(InstanceTTL))
InstancesStaleMutant ==
    \/ Instances = <<>>
    \/ InstancesLastUpdated = ZeroTime
    \/ now >= InstancesLastUpdated + InstanceTTL
InstancesStale ==
    \/ Instances = <<>>
    \/ InstancesLastUpdated = ZeroTime
    \/ now > InstancesLastUpdated + InstanceTTL

\* the error discoverInstances returns when the enumeration failed
DescribeErr == <<"describe", 0, 0>>

\* no call of GetInstances has returned yet
NoReturn ==
    [scrape |-> "", instances |-> <<>>, err |-> Nil, refreshed |-> FALSE,
     from |-> 0]

\* ------------------------------------------------------ the metric manager
\* a models.MetricDetails
NewMetricDetails(name, unit, statistics) ==
    [Name |-> name, Unit |-> unit, Statistics |-> statistics]

\* a types.ResponseResourceMetric; NilString stands for a nil pointer
ResponseResourceMetric(metric, description, unit) ==
    [Metric |-> metric, Description |-> description, Unit |-> unit]

\* what ListAvailableResourceMetrics can list for the instance: no metric,
\* one metric, two metrics, and one entry that names no metric
Listings ==
    << <<>>,
       <<ResponseResourceMetric("db.load", "load", "None")>>,
       <<ResponseResourceMetric("db.load", "load", "None"),
         ResponseResourceMetric("os.cpu", "cpu", "Percent")>>,
       <<ResponseResourceMetric(NilString, "load", "None")>> >>

\* metric.Metric != nil && metric.Description != nil && metric.Unit != nil
validResponseResourceMetric(metric) ==
    /\ metric.Metric # NilString
    /\ metric.Description # NilString
    /\ metric.Unit # NilString

\* getMetricStatistics under the configured statistics: the average of every
\* metric, and the maximum of the operating system's
getMetricStatistics(metricName) ==
    IF metricName \in {"os.cpu"} THEN <<"avg", "max">> ELSE <<"avg">>

\* len(availableMetrics) == 0 in BuildMetricDefinitionMap
NoMetricsProvidedMutant(availableMetrics) == FALSE
NoMetricsProvided(availableMetrics) == Len(availableMetrics) = 0

\* the map BuildMetricDefinitionMap returns for a listing that is not empty,
\* as the set of its values; the description of a metric is the registry's
BuildMetricDefinitionMap(availableMetrics) ==
    {NewMetricDetails(availableMetrics[k].Metric, availableMetrics[k].Unit,
                      getMetricStatistics(availableMetrics[k].Metric)) :
        k \in {j \in DOMAIN availableMetrics :
                 /\ validResponseResourceMetric(availableMetrics[j])
                 /\ Len(getMetricStatistics(availableMetrics[j].Metric)) > 0}}

\* models.DeriveMetricCategory, by the prefix of the name
DeriveMetricCategory(metricName) ==
    IF metricName \in {"os.cpu"} THEN "os"
    ELSE IF metricName \in {"db.load"} THEN "db"
    ELSE "other"

\* MetricDetails.GetFilterableFields and MetricDetails.GetFilterableTags
FilterableMetric(metric) ==
    [nil |-> FALSE,
     fields |-> [name |-> metric.Name,
                 category |-> DeriveMetricCategory(metric.Name),
                 unit |-> metric.Unit],
     tags |-> [tagKey \in {} |-> ""]]

\* the configured metric filters: none, an exclude of one category, and an
\* include that no metric of the instance matches
MetricFilters ==
    << [nil |-> TRUE, IncludePatterns |-> NoPatterns,
        ExcludePatterns |-> NoPatterns],
       [nil |-> FALSE, IncludePatterns |-> NoPatterns,
        ExcludePatterns |-> [category |-> {{"os"}}]],
       [nil |-> FALSE, IncludePatterns |-> [name |-> {{"db.io"}}],
        ExcludePatterns |-> NoPatterns] >>

\* ParsedMetricsConfig.ShouldIncludeMetric
ShouldIncludeMetric(metric) ==
    IF MetricFilters[metricFilter].nil
    THEN TRUE
    ELSE ShouldInclude(MetricFilters[metricFilter], FilterableMetric(metric))

\* metric.Name + "." + statistic.String(), as the pair of its two parts
NameWithStatistic(metric, k) == <<metric.Name, metric.Statistics[k]>>

\* the strings of one metric, in the order of its statistics
NamesOfMetric(metric) ==
    [k \in 1..Len(metric.Statistics) |-> NameWithStatistic(metric, k)]

RECURSIVE NamesInOrder(_)
NamesInOrder(order) ==
    IF order = <<>> THEN <<>>
    ELSE NamesOfMetric(Head(order)) \o NamesInOrder(Tail(order))

\* utils.GetMetricNamesWithStatistic ranges over the map, whose iteration
\* order is not defined: one list for every order of the metrics
GetMetricNamesWithStatistic(metricsDefinitionMap) ==
    LET n == Cardinality(metricsDefinitionMap)
    IN  {NamesInOrder(order) :
            order \in {o \in [1..n -> metricsDefinitionMap] :
                         \A a, b \in 1..n : a # b => o[a] # o[b]}}

\* the nil map of a models.Metrics that was never refreshed
NilMap == [nil |-> TRUE, map |-> {}]

\* MetricsDetails == nil || MetricsLastUpdated.IsZero() ||
\*     time.Now().After(MetricsLastUpdated.Add(MetadataTTL))
MetricsStale ==
    \/ MetricsDetails.nil
    \/ MetricsLastUpdated = ZeroTime
    \/ now > MetricsLastUpdated + MetadataTTL

\* the error getAvailableMetrics returns when the listing failed
ListErr == <<"list", 0, 0>>

\* the error of BuildMetricDefinitionMap for an empty listing
NoMetricsErr == <<"no metrics", 0, 0>>

\* utils.BatchSize
BatchSize == 15

\* the batches of utils.BatchMetricNames from index i on
RECURSIVE BatchesFrom(_, _, _)
BatchesFrom(metricNames, batchSize, i) ==
    IF i >= Len(metricNames) THEN <<>>
    ELSE LET end == IF i + batchSize > Len(metricNames)
                    THEN Len(metricNames) ELSE i + batchSize
         IN  <<SubSeq(metricNames, i + 1, end)>>
                 \o BatchesFrom(metricNames, batchSize, end)

\* utils.BatchMetricNames
BatchMetricNamesMutant(metricNames, batchSize) ==
    IF Len(metricNames) = 0 \/ batchSize <= 0 THEN <<>>
    ELSE BatchesFrom(metricNames, batchSize + 1, 0)
BatchMetricNames(metricNames, batchSize) ==
    IF Len(metricNames) = 0 \/ batchSize <= 0 THEN <<>>
    ELSE BatchesFrom(metricNames, batchSize, 0)

\* no call of GetMetricBatches has returned yet
NoMetricsReturn ==
    [scrape |-> "", list |-> <<>>, err |-> Nil, refreshed |-> FALSE,
     listing |-> 0, batches |-> <<>>]

\* ------------------------------------------------ the description registry
\* the engines of the instances
Engines == {"postgres", "mysql"}

\* the MetricDescriptionRegistry values that can be created
MaxRegistries == 3
RegistryIds == 1..MaxRegistries

\* the names under which the provider lists one metric, and the
\* descriptions it gives for it
MetricNames == {"db.load", "DB.Load"}
Descriptions == {"", "Database load"}

\* strings.ToLower(metricName)
ToLower(name) == IF name \in {"db.load", "DB.Load"} THEN "db.load" ELSE name
LowerNames == {ToLower(name) : name \in MetricNames}

\* a key without an entry in r.descriptions
Absent == "<absent>"

\* make(map[string]string)
NoDescriptions == [name \in LowerNames |-> Absent]

\* a sync.Mutex that nobody holds
Unlocked == "unlocked"

\* r.mu.Lock() returns only while nobody holds the mutex
LockReadyMutant(holder) == TRUE
LockReady(holder) == holder = Unlocked

\* ------------------------------------------------------------ the clock
\* time.Now() lies further from the zero time than any TTL
StartTime == InstanceTTL + MetadataTTL

\* ctx := context.Background() in Collect: a context that is never done
BackgroundDone == FALSE

\* ------------------------------------------------------------------- Init
\* the scheduler at the start of a scrape
SchedulerInit ==
    /\ cancelled = FALSE
    /\ mainpc = "fanout"
    /\ catpc = [i \in 1..NumInstances |-> "acquire"]
    /\ semaphore = 0
    /\ results = [i \in 1..NumInstances |-> ZeroResult]
    /\ getCalls = [i \in 1..NumInstances |-> 0]
    /\ requestQueue = <<>>
    /\ closed = FALSE
    /\ prodpc = "run"
    /\ prodI = 1
    /\ prodJ = 1
    /\ wpc = [w \in Workers |-> "idle"]
    /\ wreq = [w \in Workers |-> NoReq]
    /\ errors = <<>>
    /\ ret = Nil
    /\ collectCalls = [r \in Requests |-> 0]
    /\ cancelOutstanding = FALSE
    /\ requestCancelled = FALSE

\* the managers as their constructors leave them: nothing is cached and no
\* scrape is inside GetInstances or getMetrics
ManagersInit ==
    /\ now = StartTime
    /\ Instances = <<>>
    /\ InstancesLastUpdated = ZeroTime
    /\ ipc = [s \in Scrapes |-> "idle"]
    /\ discovered = [s \in Scrapes |-> <<>>]
    /\ enumerated = [s \in Scrapes |-> 0]
    /\ cacheFrom = 0
    /\ returned = NoReturn
    /\ MetricsDetails = NilMap
    /\ MetricsList = <<>>
    /\ MetricsLastUpdated = ZeroTime
    /\ mpc = [t \in Scrapes |-> "idle"]
    /\ filteredMetrics = [t \in Scrapes |-> {}]
    /\ filteredMetricList = [t \in Scrapes |-> <<>>]
    /\ listed = [t \in Scrapes |-> 0]
    /\ mreturned = NoMetricsReturn

\* a utility that is not part of the behaviours of a specification
Idle == "idle"

\* the utilities at rest: no call of theirs is followed
UtilitiesInit ==
    /\ retry = Idle
    /\ filt = Idle
    /\ registry = Idle
    /\ batch = Idle
    /\ collect = Idle
    /\ handler = Idle
    /\ config = Idle
    /\ stats = Idle
    /\ selection = Idle
    /\ caches = Idle
    /\ multi = Idle

\* a scrape of the scheduler; no filter is configured
Init ==
    /\ SchedulerInit
    /\ ManagersInit
    /\ UtilitiesInit
    /\ instanceFilter = 1
    /\ metricFilter = 1

\* the managers under any of the configured filters
ManagersStart ==
    /\ SchedulerInit
    /\ ManagersInit
    /\ UtilitiesInit
    /\ instanceFilter \in DOMAIN InstanceFilters
    /\ metricFilter \in DOMAIN MetricFilters

\* --------------------------------------------------- the catalog fan-out
\* select { case semaphore <- struct{}{}: ... } followed by the call
CatalogAcquire(i) ==
    /\ mainpc = "fanout"
    /\ catpc[i] = "acquire"
    /\ SemaphoreReady(semaphore)
    /\ semaphore' = semaphore + 1
    /\ catpc' = [catpc EXCEPT ![i] = "calling"]
    /\ getCalls' = [getCalls EXCEPT ![i] = @ + 1]
    /\ UNCHANGED <<restVars, cancelled, mainpc, results, prodVars,
                   workVars, errors, ret, cancelOutstanding>>

\* select { case <-ctx.Done(): results[index] = {instance, err: ctx.Err()} }
CatalogCancelled(i) ==
    /\ mainpc = "fanout"
    /\ catpc[i] = "acquire"
    /\ cancelled
    /\ results' = [results EXCEPT ![ResultSlot(i)] =
                      [instance |-> instances[i], batches |-> 0, err |-> CtxErr]]
    /\ catpc' = [catpc EXCEPT ![i] = "done"]
    /\ UNCHANGED <<restVars, cancelled, mainpc, semaphore, getCalls,
                   prodVars, workVars, errors, ret, cancelOutstanding>>

\* outcomes of srm.metricManager.GetMetricBatches(ctx, instance)
CatalogOutcomes(i) ==
    {[instance |-> instances[i], batches |-> n, err |-> Nil] : n \in BatchCounts}
    \cup {[instance |-> instances[i], batches |-> 0, err |-> CatalogErr(instances[i])]}
    \cup (IF cancelled
          THEN {[instance |-> instances[i], batches |-> 0, err |-> CtxErr]}
          ELSE {})

\* GetMetricBatches returns; results[index] is written, the deferred
\* release of the semaphore and wg.Done() run
CatalogReturn(i) ==
    /\ mainpc = "fanout"
    /\ catpc[i] = "calling"
    /\ \E r \in CatalogOutcomes(i) :
          results' = [results EXCEPT ![ResultSlot(i)] = r]
    /\ semaphore' = semaphore - 1
    /\ catpc' = [catpc EXCEPT ![i] = "done"]
    /\ UNCHANGED <<restVars, cancelled, mainpc, getCalls, prodVars,
                   workVars, errors, ret, cancelOutstanding>>

\* wg.Wait() returns; the worker pool and the producer are started
FanoutDone ==
    /\ mainpc = "fanout"
    /\ \A i \in 1..NumInstances : catpc[i] = "done"
    /\ mainpc' = "drain"
    /\ UNCHANGED <<restVars, cancelled, catVars, prodVars, workVars,
                   errors, ret, cancelOutstanding>>

\* ------------------------------------------------------------ the producer
ProducerAtSelect ==
    /\ mainpc = "drain"
    /\ prodpc = "run"
    /\ prodI <= NumInstances
    /\ results[prodI].err = Nil
    /\ prodJ <= results[prodI].batches

\* if result.err != nil { errors = append(errors, result.err); continue }
ProducerRecordError ==
    /\ mainpc = "drain"
    /\ prodpc = "run"
    /\ prodI <= NumInstances
    /\ results[prodI].err # Nil
    /\ errors' = Append(errors, results[prodI].err)
    /\ prodI' = ProducerAfterCatalogError(prodI)
    /\ prodJ' = 1
    /\ UNCHANGED <<restVars, cancelled, mainpc, catVars, requestQueue,
                   closed, prodpc, workVars, ret, cancelOutstanding>>

\* case requestQueue <- metricRequest{result.instance, batch}:
ProducerSend ==
    /\ ProducerAtSelect
    /\ Len(requestQueue) < queueSize
    /\ requestQueue' = Append(requestQueue,
          [instance |-> results[prodI].instance, metricsBatch |-> prodJ])
    /\ prodJ' = prodJ + 1
    /\ UNCHANGED <<restVars, cancelled, mainpc, catVars, closed, prodpc,
                   prodI, workVars, errors, ret, cancelOutstanding>>

\* case <-ctx.Done(): return   (the deferred close runs)
ProducerCancelled ==
    /\ ProducerAtSelect
    /\ cancelled
    /\ prodpc' = "exited"
    /\ closed' = ProducerCloses
    /\ UNCHANGED <<restVars, cancelled, mainpc, catVars, requestQueue,
                   prodI, prodJ, workVars, errors, ret, cancelOutstanding>>

\* the inner range loop is exhausted: next element of batchResults
ProducerNextResult ==
    /\ mainpc = "drain"
    /\ prodpc = "run"
    /\ prodI <= NumInstances
    /\ results[prodI].err = Nil
    /\ prodJ > results[prodI].batches
    /\ prodI' = prodI + 1
    /\ prodJ' = 1
    /\ UNCHANGED <<restVars, cancelled, mainpc, catVars, requestQueue,
                   closed, prodpc, workVars, errors, ret, cancelOutstanding>>

\* the outer range loop is exhausted: the goroutine returns, the deferred
\* close(requestQueue) and producerWg.Done() run
ProducerFinish ==
    /\ mainpc = "drain"
    /\ prodpc = "run"
    /\ prodI > NumInstances
    /\ prodpc' = "exited"
    /\ closed' = ProducerCloses
    /\ UNCHANGED <<restVars, cancelled, mainpc, catVars, requestQueue,
                   prodI, prodJ, workVars, errors, ret, cancelOutstanding>>

\* ------------------------------------------------------------- the workers
\* case req, ok := <-requestQueue: with ok: CollectMetricsForBatch is called
WorkerReceive(w) ==
    /\ mainpc = "drain"
    /\ wpc[w] = "idle"
    /\ requestQueue # <<>>
    /\ wreq' = [wreq EXCEPT ![w] = Head(requestQueue)]
    /\ requestQueue' = Tail(requestQueue)
    /\ wpc' = [wpc EXCEPT ![w] = "fetching"]
    /\ collectCalls' = [collectCalls EXCEPT ![Head(requestQueue)] = @ + 1]
    /\ UNCHANGED <<restVars, cancelled, mainpc, catVars, closed, prodpc,
                   prodI, prodJ, errors, ret,
                   cancelOutstanding>>

\* case req, ok := <-requestQueue: with !ok: return
WorkerQueueClosed(w) ==
    /\ mainpc = "drain"
    /\ wpc[w] = "idle"
    /\ requestQueue = <<>>
    /\ closed
    /\ wpc' = [wpc EXCEPT ![w] = "exited"]
    /\ UNCHANGED <<restVars, cancelled, mainpc, catVars, prodVars, wreq,
                   collectCalls, errors, ret,
                   cancelOutstanding>>

\* case <-ctx.Done(): return
WorkerCancelled(w) ==
    /\ mainpc = "drain"
    /\ wpc[w] = "idle"
    /\ cancelled
    /\ wpc' = [wpc EXCEPT ![w] = "exited"]
    /\ UNCHANGED <<restVars, cancelled, mainpc, catVars, prodVars, wreq,
                   collectCalls, errors, ret,
                   cancelOutstanding>>

\* errors getMetricData can return for a request
DataErrors(req) ==
    {DataErr(req)} \cup (IF cancelled THEN {CtxErr} ELSE {})

\* getMetricData fails: CollectMetricsForBatch returns the error and the
\* worker appends it under errorsMu
WorkerFetchFails(w) ==
    /\ mainpc = "drain"
    /\ wpc[w] = "fetching"
    /\ wreq[w].metricsBatch \in FailingBatches
    /\ \E e \in DataErrors(wreq[w]) : errors' = Append(errors, e)
    /\ wpc' = [wpc EXCEPT ![w] = WorkerAfterError]
    /\ wreq' = [wreq EXCEPT ![w] = NoReq]
    /\ UNCHANGED <<restVars, cancelled, mainpc, catVars, prodVars,
                   collectCalls, ret, cancelOutstanding>>

\* getMetricData succeeds; with no datapoint that the formatter accepts
\* CollectMetricsForBatch returns nil at once, otherwise the worker goes on
\* to send the first sample
WorkerFetchSucceeds(w) ==
    /\ mainpc = "drain"
    /\ wpc[w] = "fetching"
    /\ \E more \in BOOLEAN :
          /\ wpc' = [wpc EXCEPT ![w] = IF more THEN "emitting" ELSE "idle"]
          /\ wreq' = [wreq EXCEPT ![w] = NoReq]
    /\ UNCHANGED <<restVars, cancelled, mainpc, catVars, prodVars, collectCalls,
                   errors, ret, cancelOutstanding>>

\* ch <- prometheus.NewMetricWithTimestamp(...): the send completes when
\* the reader of the scrape sink takes the sample; the loop over metricData
\* then sends the next sample or, after the last one, returns nil
SinkReceive(w) ==
    /\ mainpc = "drain"
    /\ wpc[w] = "emitting"
    /\ \E more \in BOOLEAN :
          /\ wpc' = [wpc EXCEPT ![w] = IF more THEN "emitting" ELSE "idle"]
    /\ UNCHANGED <<restVars, cancelled, mainpc, catVars, prodVars, wreq, collectCalls,
                   errors, ret, cancelOutstanding>>

\* ------------------------------------------------------------ aggregation
\* workerWg.Wait() returns: every worker has called workerWg.Done()
workerWgWaitMutant == TRUE
workerWgWait == \A w \in Workers : wpc[w] = "exited"

\* producerWg.Wait(); workerWg.Wait(); return errors[0] or nil
Return ==
    /\ mainpc = "drain"
    /\ prodpc = "exited"
    /\ workerWgWait
    /\ mainpc' = "returned"
    /\ ret' = ReturnValue(errors)
    /\ UNCHANGED <<restVars, cancelled, catVars, prodVars, workVars,
                   errors, cancelOutstanding>>

\* ------------------------------------------------------------ environment
\* catalog tasks or work items are still outstanding
Outstanding ==
    \/ \E i \in 1..NumInstances : catpc[i] # "done"
    \/ requestQueue # <<>>
    \/ ProducerAtSelect

\* the scrape context is cancelled
Cancel ==
    /\ ~cancelled
    /\ mainpc # "returned"
    /\ cancelled' = TRUE
    /\ cancelOutstanding' = Outstanding
    /\ UNCHANGED <<restVars, mainpc, catVars, prodVars, workVars,
                   errors, ret>>

Next ==
    \/ \E i \in 1..NumInstances : CatalogAcquire(i)
    \/ \E i \in 1..NumInstances : CatalogCancelled(i)
    \/ \E i \in 1..NumInstances : CatalogReturn(i)
    \/ FanoutDone
    \/ ProducerRecordError
    \/ ProducerSend
    \/ ProducerCancelled
    \/ ProducerNextResult
    \/ ProducerFinish
    \/ \E w \in Workers : WorkerReceive(w)
    \/ \E w \in Workers : WorkerQueueClosed(w)
    \/ \E w \in Workers : WorkerCancelled(w)
    \/ \E w \in Workers : WorkerFetchFails(w)
    \/ \E w \in Workers : WorkerFetchSucceeds(w)
    \/ \E w \in Workers : SinkReceive(w)
    \/ Return
    \/ Cancel

Spec == Init /\ [][Next]_vars

\* the steps of a scrape whose context is never cancelled
UncancelledNext ==
    \/ \E i \in 1..NumInstances : CatalogAcquire(i)
    \/ \E i \in 1..NumInstances : CatalogReturn(i)
    \/ FanoutDone
    \/ ProducerRecordError
    \/ ProducerSend
    \/ ProducerNextResult
    \/ ProducerFinish
    \/ \E w \in Workers : WorkerReceive(w)
    \/ \E w \in Workers : WorkerQueueClosed(w)
    \/ \E w \in Workers : WorkerFetchFails(w)
    \/ \E w \in Workers : WorkerFetchSucceeds(w)
    \/ \E w \in Workers : SinkReceive(w)
    \/ Return

\* every goroutine that can take a step eventually takes one and every
\* provider call eventually returns; nothing is assumed of the reader of the
\* sink or of the owner of the context
ProgramFairness ==
    /\ \A i \in 1..NumInstances : WF_vars(CatalogAcquire(i))
    /\ \A i \in 1..NumInstances : WF_vars(CatalogCancelled(i))
    /\ \A i \in 1..NumInstances : WF_vars(CatalogReturn(i))
    /\ WF_vars(FanoutDone)
    /\ WF_vars(ProducerRecordError)
    /\ WF_vars(ProducerSend)
    /\ WF_vars(ProducerCancelled)
    /\ WF_vars(ProducerNextResult)
    /\ WF_vars(ProducerFinish)
    /\ \A w \in Workers : WF_vars(WorkerReceive(w))
    /\ \A w \in Workers : WF_vars(WorkerQueueClosed(w))
    /\ \A w \in Workers : WF_vars(WorkerCancelled(w))
    /\ \A w \in Workers : WF_vars(WorkerFetchFails(w) \/ WorkerFetchSucceeds(w))
    /\ WF_vars(Return)

\* the reader of the scrape sink eventually takes every sample offered
SinkFairness == \A w \in Workers : WF_vars(SinkReceive(w))

\* a scrape under a fair scheduler; the sink is not necessarily read
CancelSpec == Init /\ [][Next]_vars /\ ProgramFairness

\* a scrape whose context is never cancelled, under a fair scheduler, with a
\* sink that is read
LiveSpec == Init /\ [][UncancelledNext]_vars /\ ProgramFairness /\ SinkFairness

\* ------------------------------------------------------------- the clock
Tick ==
    /\ now < StartTime + MaxElapsed
    /\ now' = now + 1
    /\ UNCHANGED <<schedVars, utilVars, requestCancelled, instVars, metVars>>

\* ------------------------------------------------------------ GetInstances
\* the condition of the if statement is evaluated
GetInstancesEnter(s) ==
    /\ ipc[s] = "idle"
    /\ ipc' = [ipc EXCEPT ![s] = IF InstancesStale THEN "describing"
                                                   ELSE "cached"]
    /\ UNCHANGED <<schedVars, utilVars, requestCancelled, now, metVars, instanceFilter,
                   Instances, InstancesLastUpdated, discovered, enumerated,
                   cacheFrom, returned>>

\* DescribeDBInstancesPaginator failed on every attempt of WithRetry:
\* discoverInstances and GetInstances return the error
DescribeFails(s) ==
    /\ ipc[s] = "describing"
    /\ ipc' = [ipc EXCEPT ![s] = "idle"]
    /\ returned' = [scrape |-> s, instances |-> <<>>, err |-> DescribeErr,
                    refreshed |-> FALSE, from |-> 0]
    /\ UNCHANGED <<schedVars, utilVars, requestCancelled, now, metVars, instanceFilter,
                   Instances, InstancesLastUpdated, discovered, enumerated,
                   cacheFrom>>

\* the provider enumerates its records; discoverInstances builds, filters
\* and sorts the instances
DescribeReturns(s) ==
    /\ ipc[s] = "describing"
    /\ \E e \in DOMAIN Enumerations :
          /\ enumerated' = [enumerated EXCEPT ![s] = e]
          /\ \E sorted \in sortSlice(Collected(Enumerations[e])) :
                discovered' = [discovered EXCEPT ![s] = sorted]
    /\ ipc' = [ipc EXCEPT ![s] = "store"]
    /\ UNCHANGED <<schedVars, utilVars, requestCancelled, now, metVars, instanceFilter,
                   Instances, InstancesLastUpdated, cacheFrom, returned>>

\* instanceManager.Instances = instances[:maxInstances] or instances
StoreInstances(s) ==
    /\ ipc[s] = "store"
    /\ Instances' = Truncated(discovered[s])
    /\ cacheFrom' = enumerated[s]
    /\ ipc' = [ipc EXCEPT ![s] = "stamp"]
    /\ UNCHANGED <<schedVars, utilVars, requestCancelled, now, metVars, instanceFilter,
                   InstancesLastUpdated, discovered, enumerated, returned>>

\* instanceManager.InstancesLastUpdated = time.Now()
StampInstances(s) ==
    /\ ipc[s] = "stamp"
    /\ InstancesLastUpdated' = now
    /\ ipc' = [ipc EXCEPT ![s] = "refreshed"]
    /\ UNCHANGED <<schedVars, utilVars, requestCancelled, now, metVars, instanceFilter,
                   Instances, discovered, enumerated, cacheFrom, returned>>

\* return instanceManager.Instances, nil
ReturnInstances(s) ==
    /\ ipc[s] \in {"refreshed", "cached"}
    /\ returned' = [scrape |-> s, instances |-> Instances, err |-> Nil,
                    refreshed |-> (ipc[s] = "refreshed"), from |-> cacheFrom]
    /\ ipc' = [ipc EXCEPT ![s] = "idle"]
    /\ discovered' = [discovered EXCEPT ![s] = <<>>]
    /\ enumerated' = [enumerated EXCEPT ![s] = 0]
    /\ UNCHANGED <<schedVars, utilVars, requestCancelled, now, metVars, instanceFilter,
                   Instances, InstancesLastUpdated, cacheFrom>>

\* the other scrapes are not inside GetInstances
Exclusive(s) == \A t \in Scrapes \ {s} : ipc[t] = "idle"

\* GetInstances as called by scrapes that do not overlap
InstNext ==
    \/ \E s \in Scrapes : Exclusive(s) /\ GetInstancesEnter(s)
    \/ \E s \in Scrapes : DescribeFails(s)
    \/ \E s \in Scrapes : DescribeReturns(s)
    \/ \E s \in Scrapes : StoreInstances(s)
    \/ \E s \in Scrapes : StampInstances(s)
    \/ \E s \in Scrapes : ReturnInstances(s)
    \/ Tick

\* -------------------------------------------------------------- getMetrics
\* the condition of the if statement is evaluated
GetMetricsEnter(t) ==
    /\ mpc[t] = "idle"
    /\ mpc' = [mpc EXCEPT ![t] = IF MetricsStale THEN "listing" ELSE "cached"]
    /\ UNCHANGED <<schedVars, utilVars, requestCancelled, now, instVars, metricFilter, listed,
                   MetricsDetails, MetricsList, MetricsLastUpdated,
                   filteredMetrics, filteredMetricList, mreturned>>

\* ListAvailableResourceMetrics failed on every attempt of WithRetry:
\* getAvailableMetrics, getMetrics and GetMetricBatches return the error
ListFailsMutant(t) ==
    /\ mpc[t] = "listing"
    /\ mpc' = [mpc EXCEPT ![t] = "idle"]
    /\ MetricsLastUpdated' = now
    /\ mreturned' = [scrape |-> t, list |-> <<>>, err |-> ListErr,
                     refreshed |-> FALSE, listing |-> 0, batches |-> <<>>]
    /\ UNCHANGED <<schedVars, utilVars, requestCancelled, now, instVars, metricFilter, listed,
                   MetricsDetails, MetricsList,
                   filteredMetrics, filteredMetricList>>
ListFails(t) ==
    /\ mpc[t] = "listing"
    /\ mpc' = [mpc EXCEPT ![t] = "idle"]
    /\ mreturned' = [scrape |-> t, list |-> <<>>, err |-> ListErr,
                     refreshed |-> FALSE, listing |-> 0, batches |-> <<>>]
    /\ UNCHANGED <<schedVars, utilVars, requestCancelled, now, instVars, metricFilter, listed,
                   MetricsDetails, MetricsList, MetricsLastUpdated,
                   filteredMetrics, filteredMetricList>>

\* the provider lists no metric: BuildMetricDefinitionMap returns its error,
\* and so do getAvailableMetrics, getMetrics and GetMetricBatches
BuildFails(t) ==
    /\ mpc[t] = "listing"
    /\ \E l \in DOMAIN Listings :
          /\ NoMetricsProvided(Listings[l])
          /\ mreturned' = [scrape |-> t, list |-> <<>>, err |-> NoMetricsErr,
                           refreshed |-> FALSE, listing |-> l,
                           batches |-> <<>>]
    /\ mpc' = [mpc EXCEPT ![t] = "idle"]
    /\ UNCHANGED <<schedVars, utilVars, requestCancelled, now, instVars, metricFilter,
                   listed, MetricsDetails, MetricsList, MetricsLastUpdated,
                   filteredMetrics, filteredMetricList>>

\* getAvailableMetrics returns a map; the metrics the configuration includes
\* are copied to filteredMetrics and flattened to filteredMetricList
ListReturns(t) ==
    /\ mpc[t] = "listing"
    /\ \E l \in DOMAIN Listings :
          LET included == {metric \in BuildMetricDefinitionMap(Listings[l]) :
                              ShouldIncludeMetric(metric)}
          IN  /\ ~NoMetricsProvided(Listings[l])
              /\ listed' = [listed EXCEPT ![t] = l]
              /\ filteredMetrics' = [filteredMetrics EXCEPT ![t] = included]
              /\ \E list \in GetMetricNamesWithStatistic(included) :
                    filteredMetricList' =
                        [filteredMetricList EXCEPT ![t] = list]
    /\ mpc' = [mpc EXCEPT ![t] = "details"]
    /\ UNCHANGED <<schedVars, utilVars, requestCancelled, now, instVars, metricFilter,
                   MetricsDetails, MetricsList, MetricsLastUpdated, mreturned>>

\* metrics.MetricsDetails = filteredMetrics
WriteDetails(t) ==
    /\ mpc[t] = "details"
    /\ MetricsDetails' = [nil |-> FALSE, map |-> filteredMetrics[t]]
    /\ mpc' = [mpc EXCEPT ![t] = "list"]
    /\ UNCHANGED <<schedVars, utilVars, requestCancelled, now, instVars, metricFilter, listed,
                   MetricsList, MetricsLastUpdated, filteredMetrics,
                   filteredMetricList, mreturned>>

\* metrics.MetricsList = filteredMetricList
WriteList(t) ==
    /\ mpc[t] = "list"
    /\ MetricsList' = filteredMetricList[t]
    /\ mpc' = [mpc EXCEPT ![t] = "stamp"]
    /\ UNCHANGED <<schedVars, utilVars, requestCancelled, now, instVars, metricFilter, listed,
                   MetricsDetails, MetricsLastUpdated, filteredMetrics,
                   filteredMetricList, mreturned>>

\* metrics.MetricsLastUpdated = time.Now()
WriteStamp(t) ==
    /\ mpc[t] = "stamp"
    /\ MetricsLastUpdated' = now
    /\ mpc' = [mpc EXCEPT ![t] = "refreshed"]
    /\ UNCHANGED <<schedVars, utilVars, requestCancelled, now, instVars, metricFilter, listed,
                   MetricsDetails, MetricsList, filteredMetrics,
                   filteredMetricList, mreturned>>

\* return metrics.MetricsList, nil in getMetrics, and
\* return utils.BatchMetricNames(metricsList, utils.BatchSize), nil
ReturnMetrics(t) ==
    /\ mpc[t] \in {"refreshed", "cached"}
    /\ mreturned' = [scrape |-> t, list |-> MetricsList, err |-> Nil,
                     refreshed |-> (mpc[t] = "refreshed"),
                     listing |-> listed[t],
                     batches |-> BatchMetricNames(MetricsList, BatchSize)]
    /\ mpc' = [mpc EXCEPT ![t] = "idle"]
    /\ filteredMetrics' = [filteredMetrics EXCEPT ![t] = {}]
    /\ filteredMetricList' = [filteredMetricList EXCEPT ![t] = <<>>]
    /\ listed' = [listed EXCEPT ![t] = 0]
    /\ UNCHANGED <<schedVars, utilVars, requestCancelled, now, instVars, metricFilter,
                   MetricsDetails, MetricsList, MetricsLastUpdated>>

\* the catalog tasks of overlapping scrapes call getMetrics for the same
\* instance: the handler shares one region manager and nothing serialises
\* the requests
MetricNext ==
    \/ \E t \in Scrapes : GetMetricsEnter(t)
    \/ \E t \in Scrapes : ListFails(t)
    \/ \E t \in Scrapes : BuildFails(t)
    \/ \E t \in Scrapes : ListReturns(t)
    \/ \E t \in Scrapes : WriteDetails(t)
    \/ \E t \in Scrapes : WriteList(t)
    \/ \E t \in Scrapes : WriteStamp(t)
    \/ \E t \in Scrapes : ReturnMetrics(t)
    \/ Tick

\* -------------------------------------------------------- the HTTP request
\* the client gives up or the server's timeout fires: r.Context() is done.
\* Collect hands context.Background() to the scheduler, so the context of
\* the scrape is done only if the background context is
RequestCancel ==
    /\ ~requestCancelled
    /\ mainpc # "returned"
    /\ requestCancelled' = TRUE
    /\ cancelled' = (cancelled \/ BackgroundDone)
    /\ UNCHANGED <<mainpc, catVars, prodVars, workVars, errors, ret,
                   cancelOutstanding, now, instVars, metVars, utilVars>>

\* a scrape started by the metrics handler
ServeNext ==
    \/ UncancelledNext
    \/ RequestCancel

\* calls of GetInstances by scrapes that do not overlap
InstSpec == ManagersStart /\ [][InstNext]_vars

\* calls of getMetrics for one instance by the catalog tasks of overlapping
\* scrapes
MetricSpec == ManagersStart /\ [][MetricNext]_vars

\* the other catalog tasks are not inside getMetrics
Alone(t) == \A u \in Scrapes \ {t} : mpc[u] = "idle"

\* GetMetricBatches as called by catalog tasks that do not overlap
CatalogNext ==
    \/ \E t \in Scrapes : Alone(t) /\ GetMetricsEnter(t)
    \/ \E t \in Scrapes : ListFails(t)
    \/ \E t \in Scrapes : BuildFails(t)
    \/ \E t \in Scrapes : ListReturns(t)
    \/ \E t \in Scrapes : WriteDetails(t)
    \/ \E t \in Scrapes : WriteList(t)
    \/ \E t \in Scrapes : WriteStamp(t)
    \/ \E t \in Scrapes : ReturnMetrics(t)
    \/ Tick

\* calls of GetMetricBatches for one instance that do not overlap
CatalogSpec == ManagersStart /\ [][CatalogNext]_vars

\* a scrape together with the HTTP request that started it
ServeSpec == Init /\ [][ServeNext]_vars

\* --------------------------------------------------------------- WithRetry
\* the values of maxRetries: none, one, the managers' MaxRetries, and one
\* beyond the width of an int
RetryLimits == {0, 1, 3, 65}

\* the values of baseDelay, in units of time
BaseDelays == {1, 2}

\* the width of an int of the build
IntBits == 64

\* stands for every int that is at least 2^30: of such a value only the sign
\* and the comparison with 5 are used
Huge == 2^30

\* 1 << attempt on an int of IntBits bits: the bit is shifted into the sign
\* at IntBits - 1 and out of the word beyond it
ShiftLeft(k) ==
    IF k < 30 THEN 2^k
    ELSE IF k < IntBits - 1 THEN Huge
    ELSE IF k = IntBits - 1 THEN -Huge
    ELSE 0

\* min(1<<attempt, 5)
NextDelay(k) == IF ShiftLeft(k) < 5 THEN ShiftLeft(k) ELSE 5

\* baseDelay * time.Duration(nextDelay) on an int64: the product with the
\* least int64 wraps to zero for an even factor and to itself for an odd one
DelayOf(base, k) ==
    IF NextDelay(k) = -Huge
    THEN IF base % 2 = 0 THEN 0 ELSE -Huge
    ELSE base * NextDelay(k)

\* time.After(d) fires at once when d is not positive
TimerOf(d) == IF d > 0 THEN d ELSE 0

\* attempt == maxRetries
LastAttemptMutant(k, limit) == k + 1 = limit
LastAttempt(k, limit) == k = limit

\* the error of operation
OpErr == <<"operation", 0, 0>>

\* a goroutine parked in the select is resumed by the first event that
\* arrives: the close of ctx.Done() takes it out of the sleep
WokenByDoneMutant(pc) == pc
WokenByDone(pc) == IF pc = "sleeping" THEN "interrupted" ELSE pc

\* the scheduler and the managers at rest, no filter configured
OthersStart ==
    /\ SchedulerInit
    /\ ManagersInit
    /\ instanceFilter = 1
    /\ metricFilter = 1

\* a call of WithRetry is about to make its first attempt
RetryStart ==
    /\ OthersStart
    /\ filt = Idle
    /\ registry = Idle
    /\ batch = Idle
    /\ collect = Idle
    /\ handler = Idle
    /\ config = Idle
    /\ stats = Idle
    /\ selection = Idle
    /\ caches = Idle
    /\ multi = Idle
    /\ retry \in [pc : {"calling"}, maxRetries : RetryLimits,
                  baseDelay : BaseDelays, attempt : {0}, delay : {0},
                  remaining : {0}, ctxDone : {FALSE}, ret : {Nil},
                  opCalls : {0}, opFailures : {0}]

\* result, err = operation() with err == nil: return result, nil
OperationSucceeds ==
    /\ retry.pc = "calling"
    /\ retry' = [retry EXCEPT !.opCalls = @ + 1, !.ret = Nil,
                              !.pc = "returned"]
    /\ UNCHANGED outsideRetry

\* result, err = operation() with an error: the last attempt returns it,
\* any other computes the delay and reaches the select
OperationFails ==
    /\ retry.pc = "calling"
    /\ retry' =
          IF LastAttempt(retry.attempt, retry.maxRetries)
          THEN [retry EXCEPT !.opCalls = @ + 1, !.opFailures = @ + 1,
                             !.pc = "returned", !.ret = OpErr]
          ELSE [retry EXCEPT !.opCalls = @ + 1, !.opFailures = @ + 1,
                             !.pc = "select",
                             !.delay = DelayOf(retry.baseDelay, retry.attempt)]
    /\ UNCHANGED outsideRetry

\* select { case <-ctx.Done(): ...; case <-time.After(delay): }: with ctx
\* done the first case is ready, and so may be the second when the delay is
\* not positive; otherwise the goroutine parks until an event arrives
SelectEnter ==
    /\ retry.pc = "select"
    /\ \E pc \in {"interrupted", "fired", "sleeping"} :
          /\ pc = "interrupted" => retry.ctxDone
          /\ pc = "fired" => (retry.ctxDone /\ TimerOf(retry.delay) = 0)
          /\ pc = "sleeping" => ~retry.ctxDone
          /\ retry' = [retry EXCEPT !.remaining = TimerOf(retry.delay),
                                    !.pc = pc]
    /\ UNCHANGED outsideRetry

\* time passes while the goroutine sleeps
Elapse ==
    /\ retry.pc = "sleeping"
    /\ retry.remaining > 0
    /\ retry' = [retry EXCEPT !.remaining = @ - 1]
    /\ UNCHANGED outsideRetry

\* the timer of time.After fires and resumes the goroutine
TimerFires ==
    /\ retry.pc = "sleeping"
    /\ retry.remaining = 0
    /\ retry' = [retry EXCEPT !.pc = "fired"]
    /\ UNCHANGED outsideRetry

\* case <-time.After(delay): attempt++ and the next iteration
NextAttempt ==
    /\ retry.pc = "fired"
    /\ retry' = [retry EXCEPT !.attempt = @ + 1, !.pc = "calling"]
    /\ UNCHANGED outsideRetry

\* the context of the caller is cancelled
CtxCancel ==
    /\ ~retry.ctxDone
    /\ retry.pc # "returned"
    /\ retry' = [retry EXCEPT !.ctxDone = TRUE, !.pc = WokenByDone(@)]
    /\ UNCHANGED outsideRetry

\* case <-ctx.Done(): return result, ctx.Err()
ReturnCtxErr ==
    /\ retry.pc = "interrupted"
    /\ retry' = [retry EXCEPT !.ret = CtxErr, !.pc = "returned"]
    /\ UNCHANGED outsideRetry

RetryNext ==
    \/ OperationSucceeds
    \/ OperationFails
    \/ SelectEnter
    \/ Elapse
    \/ TimerFires
    \/ NextAttempt
    \/ CtxCancel
    \/ ReturnCtxErr

\* one call of WithRetry
RetrySpec == RetryStart /\ [][RetryNext]_vars

\* ----------------------------------------------------------- ShouldInclude
\* a filter is about to be asked about an object
FilterStart ==
    /\ OthersStart
    /\ retry = Idle
    /\ registry = Idle
    /\ batch = Idle
    /\ collect = Idle
    /\ handler = Idle
    /\ config = Idle
    /\ stats = Idle
    /\ selection = Idle
    /\ caches = Idle
    /\ multi = Idle
    /\ filt \in [pc : {"calling"}, IncludePatterns : PatternMaps,
                 ExcludePatterns : PatternMaps, obj : DOMAIN FilterObjects,
                 result : {FALSE}]

\* return patternFilter.ShouldInclude(obj)
ShouldIncludeReturns ==
    /\ filt.pc = "calling"
    /\ filt' = [filt EXCEPT
                   !.result = ShouldInclude(
                       [IncludePatterns |-> filt.IncludePatterns,
                        ExcludePatterns |-> filt.ExcludePatterns],
                       FilterObjects[filt.obj]),
                   !.pc = "returned"]
    /\ UNCHANGED outsideFilter

FilterNext == ShouldIncludeReturns

\* one call of ShouldInclude
FilterSpec == FilterStart /\ [][FilterNext]_vars

\* ------------------------------------------- the registry's operations
\* utils.NewPerEngineMetricRegistry(): no engine has a registry, and no
\* catalog task is inside BuildMetricDefinitionMap
RegistryStart ==
    /\ OthersStart
    /\ retry = Idle
    /\ filt = Idle
    /\ batch = Idle
    /\ collect = Idle
    /\ handler = Idle
    /\ config = Idle
    /\ stats = Idle
    /\ selection = Idle
    /\ caches = Idle
    /\ multi = Idle
    /\ registry =
          [registries |-> [e \in Engines |-> 0],
           descriptions |-> [r \in RegistryIds |-> NoDescriptions],
           mu |-> [r \in RegistryIds |-> Unlocked],
           allocated |-> 0,
           pc |-> [t \in Scrapes |-> "idle"],
           engine |-> [t \in Scrapes |-> ""],
           engineRegistry |-> [t \in Scrapes |-> 0],
           metricName |-> [t \in Scrapes |-> ""],
           awsDescription |-> [t \in Scrapes |-> ""],
           canonicalDescription |-> [t \in Scrapes |-> ""],
           firstNonEmpty |-> [k \in Engines \X LowerNames |-> Absent],
           resetCalled |-> FALSE]

\* a catalog task enters BuildMetricDefinitionMap for an instance of some
\* engine with a listing that is not empty, and
\* engineRegistry := registry.GetEngineRegistry(engine) under per.mu: the
\* registry of the engine, created if the engine has none
GetEngineRegistry(t) ==
    /\ registry.pc[t] = "idle"
    /\ \E e \in Engines :
          IF registry.registries[e] # 0
          THEN registry' =
                  [registry EXCEPT
                      !.engine[t] = e,
                      !.engineRegistry[t] = registry.registries[e],
                      !.pc[t] = "loop"]
          ELSE /\ registry.allocated < MaxRegistries
               /\ registry' =
                     [registry EXCEPT
                         !.engine[t] = e,
                         !.allocated = @ + 1,
                         !.registries[e] = registry.allocated + 1,
                         !.engineRegistry[t] = registry.allocated + 1,
                         !.pc[t] = "loop"]
    /\ UNCHANGED outsideRegistry

\* engineRegistry.GetCanonicalDescription(metricName, *metric.Description)
\* for the next metric of the listing: r.mu.Lock() and the lookup of
\* r.descriptions[normalizedMetricName]; an entry that exists is returned
\* and the mutex released, otherwise the task goes on to store its own
GetCanonicalDescription(t) ==
    /\ registry.pc[t] \in {"loop", "resolved"}
    /\ LockReady(registry.mu[registry.engineRegistry[t]])
    /\ \E name \in MetricNames, description \in Descriptions :
          LET r == registry.engineRegistry[t]
              key == <<registry.engine[t], ToLower(name)>>
              canonical == registry.descriptions[r][ToLower(name)]
              first == IF /\ description # ""
                          /\ registry.firstNonEmpty[key] = Absent
                       THEN description
                       ELSE registry.firstNonEmpty[key]
          IN  IF canonical # Absent
              THEN registry' =
                      [registry EXCEPT
                          !.metricName[t] = name,
                          !.awsDescription[t] = "",
                          !.firstNonEmpty[key] = first,
                          !.canonicalDescription[t] = canonical,
                          !.pc[t] = "resolved"]
              ELSE registry' =
                      [registry EXCEPT
                          !.metricName[t] = name,
                          !.awsDescription[t] = description,
                          !.firstNonEmpty[key] = first,
                          !.canonicalDescription[t] = "",
                          !.mu[r] = t,
                          !.pc[t] = "store"]
    /\ UNCHANGED outsideRegistry

\* r.descriptions[normalizedMetricName] = awsDescription, the deferred
\* r.mu.Unlock() and return awsDescription
CanonicalStore(t) ==
    /\ registry.pc[t] = "store"
    /\ LET r == registry.engineRegistry[t]
       IN  registry' =
              [registry EXCEPT
                  !.descriptions[r][ToLower(registry.metricName[t])] =
                      registry.awsDescription[t],
                  !.canonicalDescription[t] = registry.awsDescription[t],
                  !.awsDescription[t] = "",
                  !.mu[r] = Unlocked,
                  !.pc[t] = "resolved"]
    /\ UNCHANGED outsideRegistry

\* return metricDefinitionMap, nil
BuildReturn(t) ==
    /\ registry.pc[t] \in {"loop", "resolved"}
    /\ registry' = [registry EXCEPT !.pc[t] = "idle",
                                    !.engine[t] = "",
                                    !.engineRegistry[t] = 0,
                                    !.metricName[t] = "",
                                    !.awsDescription[t] = "",
                                    !.canonicalDescription[t] = ""]
    /\ UNCHANGED outsideRegistry

\* MetricDescriptionRegistry.ResetRegistry on a registry somebody holds
ResetRegistry(r) ==
    /\ r \in 1..registry.allocated
    /\ LockReady(registry.mu[r])
    /\ registry' = [registry EXCEPT !.descriptions[r] = NoDescriptions,
                                    !.resetCalled = TRUE]
    /\ UNCHANGED outsideRegistry

\* PerEngineMetricRegistry.ResetEngineRegistry: ResetRegistry on the
\* registry of the engine, if it has one
ResetEngineRegistry(e) ==
    /\ registry.registries[e] # 0
    /\ LockReady(registry.mu[registry.registries[e]])
    /\ registry' =
          [registry EXCEPT
              !.descriptions[registry.registries[e]] = NoDescriptions,
              !.resetCalled = TRUE]
    /\ UNCHANGED outsideRegistry

\* PerEngineMetricRegistry.ResetAllRegistries:
\* per.registries = make(map[models.Engine]*MetricDescriptionRegistry)
ResetAllRegistries ==
    /\ \E e \in Engines : registry.registries[e] # 0
    /\ registry' = [registry EXCEPT !.registries = [e \in Engines |-> 0],
                                    !.resetCalled = TRUE]
    /\ UNCHANGED outsideRegistry

\* the catalog tasks of overlapping scrapes share the registry of the metric
\* manager; its reset operations are public
RegistryNext ==
    \/ \E t \in Scrapes : GetEngineRegistry(t)
    \/ \E t \in Scrapes : GetCanonicalDescription(t)
    \/ \E t \in Scrapes : CanonicalStore(t)
    \/ \E t \in Scrapes : BuildReturn(t)
    \/ \E r \in RegistryIds : ResetRegistry(r)
    \/ \E e \in Engines : ResetEngineRegistry(e)
    \/ ResetAllRegistries

\* the description registry under its operations
RegistrySpec == RegistryStart /\ [][RegistryNext]_vars

\* -------------------------------------------------------- BatchMetricNames
\* the longest metric list
MaxListLen == 46

\* the metric list of n names, the k-th of which is written k
MetricList(n) == [k \in 1..n |-> k]

\* the batch sizes: utils.BatchSize, and sizes for which every list is cut
\* into single names or not cut at all
BatchSizes == {0, 1, BatchSize}

\* a list of metric names is about to be cut into batches
BatchStart ==
    /\ OthersStart
    /\ retry = Idle
    /\ filt = Idle
    /\ registry = Idle
    /\ collect = Idle
    /\ handler = Idle
    /\ config = Idle
    /\ stats = Idle
    /\ selection = Idle
    /\ caches = Idle
    /\ multi = Idle
    /\ batch \in [pc : {"calling"},
                  metricNames : {MetricList(n) : n \in 0..MaxListLen},
                  batchSize : BatchSizes, batches : {<<>>}]

\* return utils.BatchMetricNames(metricNames, batchSize)
BatchReturns ==
    /\ batch.pc = "calling"
    /\ batch' = [batch EXCEPT
                    !.batches = BatchMetricNames(batch.metricNames,
                                                 batch.batchSize),
                    !.pc = "returned"]
    /\ UNCHANGED outsideBatch

BatchNext == BatchReturns

\* one call of BatchMetricNames
BatchSpec == BatchStart /\ [][BatchNext]_vars

\* -------------------------------------------------- CollectMetricsForBatch
\* the most datapoints getMetricData returns for a batch
MaxData == 3

\* the Metric of a models.MetricData, as the pair of the name and the
\* statistic after its last dot: a metric of the instance, a name without
\* a statistic, and a metric the instance's MetricsDetails do not hold
DataKinds == {<<"db.load", "avg">>, <<"db.load", "">>, <<"db.gone", "avg">>}

\* what getMetricData can return for the batch
DataLists == UNION {[1..n -> DataKinds] : n \in 0..MaxData}

\* models.GetAllStatistics(), as far as they are used here
AllStatistics == {"avg", "max"}

\* utils.TrimStatisticFromMetricName
TrimStatisticFromMetricName(metricNameWithStat) ==
    IF metricNameWithStat[2] \in AllStatistics
    THEN metricNameWithStat[1]
    ELSE ""

\* the keys of instance.Metrics.MetricsDetails
InstanceMetrics == {"db.load"}

\* formatting.ConvertToPrometheusMetric returns an error: the metric name is
\* empty or safeGetMetricDetails does not find the metric
ConvertFails(metricDatum) ==
    \/ TrimStatisticFromMetricName(metricDatum) = ""
    \/ TrimStatisticFromMetricName(metricDatum) \notin InstanceMetrics

\* the loop of CollectMetricsForBatch after a failed conversion: continue
AfterConvertErrorMutant == "return"
AfterConvertError == "continue"

\* the errors of getMetricData and of ConvertToPrometheusMetric
FetchErr == <<"fetch", 0, 0>>
ConvertErr == <<"convert", 0, 0>>

\* a worker is about to call CollectMetricsForBatch for a request
CollectStart ==
    /\ OthersStart
    /\ retry = Idle
    /\ filt = Idle
    /\ registry = Idle
    /\ batch = Idle
    /\ handler = Idle
    /\ config = Idle
    /\ stats = Idle
    /\ selection = Idle
    /\ caches = Idle
    /\ multi = Idle
    /\ collect = [pc |-> "calling", metricData |-> <<>>, datum |-> 0,
                  emitted |-> <<>>, ret |-> Nil, fetchFailed |-> FALSE]

\* metricData, err := metricManager.getMetricData(...) with an error:
\* return err
FetchFails ==
    /\ collect.pc = "calling"
    /\ collect' = [collect EXCEPT !.fetchFailed = TRUE, !.ret = FetchErr,
                                  !.pc = "returned"]
    /\ UNCHANGED outsideCollect

\* getMetricData returns the datapoints of the batch
FetchReturns ==
    /\ collect.pc = "calling"
    /\ \E data \in DataLists :
          collect' = [collect EXCEPT !.metricData = data, !.datum = 1,
                                     !.pc = "converting"]
    /\ UNCHANGED outsideCollect

\* ConvertToPrometheusMetric sends the sample of metricDatum to ch, whose
\* reader takes it
ConvertSends ==
    /\ collect.pc = "converting"
    /\ collect.datum <= Len(collect.metricData)
    /\ ~ConvertFails(collect.metricData[collect.datum])
    /\ collect' = [collect EXCEPT
                      !.emitted = Append(@, collect.metricData[collect.datum]),
                      !.datum = @ + 1]
    /\ UNCHANGED outsideCollect

\* ConvertToPrometheusMetric returns an error, which is logged
ConvertReturnsError ==
    /\ collect.pc = "converting"
    /\ collect.datum <= Len(collect.metricData)
    /\ ConvertFails(collect.metricData[collect.datum])
    /\ collect' = IF AfterConvertError = "continue"
                  THEN [collect EXCEPT !.datum = @ + 1]
                  ELSE [collect EXCEPT !.ret = ConvertErr, !.pc = "returned"]
    /\ UNCHANGED outsideCollect

\* the loop is over: return nil
CollectReturns ==
    /\ collect.pc = "converting"
    /\ collect.datum > Len(collect.metricData)
    /\ collect' = [collect EXCEPT !.ret = Nil, !.pc = "returned"]
    /\ UNCHANGED outsideCollect

CollectNext ==
    \/ FetchFails
    \/ FetchReturns
    \/ ConvertSends
    \/ ConvertReturnsError
    \/ CollectReturns

\* one call of CollectMetricsForBatch
CollectSpec == CollectStart /\ [][CollectNext]_vars

\* ----------------------------------------------------------- metricsHandler
\* MaxInstanceIdentifiers = 5
MaxInstanceIdentifiers == 5

\* the longest value of the identifiers parameter that is followed
MaxParamLen == 7

\* the characters of a parameter value: a letter, a blank and the separator
ParamChars == {"a", " ", ","}

\* the values of query.Get("identifiers"); "" also stands for no parameter
ParamValues == UNION {[1..n -> ParamChars] : n \in 0..MaxParamLen}

\* strings.Split(s, ","): the pieces between the separators, one more than
\* there are separators
RECURSIVE Split(_, _)
Split(s, piece) ==
    IF s = <<>> THEN <<piece>>
    ELSE IF Head(s) = ","
         THEN <<piece>> \o Split(Tail(s), <<>>)
         ELSE Split(Tail(s), Append(piece, Head(s)))

\* strings.TrimSpace(id)
RECURSIVE TrimLeft(_)
TrimLeft(s) ==
    IF s # <<>> /\ Head(s) = " " THEN TrimLeft(Tail(s)) ELSE s

RECURSIVE TrimRight(_)
TrimRight(s) ==
    IF s # <<>> /\ s[Len(s)] = " "
    THEN TrimRight(SubSeq(s, 1, Len(s) - 1))
    ELSE s

TrimSpace(s) == TrimRight(TrimLeft(s))

\* identifiers := strings.Split(instanceIdentifiers, ",") with every
\* element replaced by strings.TrimSpace(id)
ParseIdentifiers(instanceIdentifiers) ==
    LET pieces == Split(instanceIdentifiers, <<>>)
    IN  [i \in 1..Len(pieces) |-> TrimSpace(pieces[i])]

\* len(identifiers) > MaxInstanceIdentifiers
TooManyMutant(identifiers) == Len(identifiers) > MaxInstanceIdentifiers + 1
TooMany(identifiers) == Len(identifiers) > MaxInstanceIdentifiers

\* a request for /metrics has reached metricsHandler
HandlerStart ==
    /\ OthersStart
    /\ retry = Idle
    /\ filt = Idle
    /\ registry = Idle
    /\ batch = Idle
    /\ collect = Idle
    /\ config = Idle
    /\ stats = Idle
    /\ selection = Idle
    /\ caches = Idle
    /\ multi = Idle
    /\ handler \in [pc : {"handling"}, instanceIdentifiers : ParamValues,
                    identifiers : {<<>>},
                    collectorInstance : {"none"}, instanceFilter : {<<>>},
                    code : {0}, collectCalls : {0},
                    CollectMetrics : {0}, CollectMetricsForInstances : {0}]

\* instanceIdentifiers == "": collectorInstance = NewCollector(regionManager)
\* and the registration of the collector
UseCollector ==
    /\ handler.pc = "handling"
    /\ handler.instanceIdentifiers = <<>>
    /\ handler' = [handler EXCEPT !.collectorInstance = "Collector",
                                  !.pc = "registered"]
    /\ UNCHANGED outsideHandler

\* too many identifiers: http.Error(w, ..., http.StatusBadRequest); return
TooManyIdentifiers ==
    /\ handler.pc = "handling"
    /\ handler.instanceIdentifiers # <<>>
    /\ TooMany(ParseIdentifiers(handler.instanceIdentifiers))
    /\ handler' = [handler EXCEPT
                      !.identifiers =
                          ParseIdentifiers(handler.instanceIdentifiers),
                      !.code = 400,
                      !.pc = "completed"]
    /\ UNCHANGED outsideHandler

\* collectorInstance = NewFilteredCollector(regionManager, identifiers) and
\* the registration of the collector
UseFilteredCollector ==
    /\ handler.pc = "handling"
    /\ handler.instanceIdentifiers # <<>>
    /\ ~TooMany(ParseIdentifiers(handler.instanceIdentifiers))
    /\ handler' = [handler EXCEPT
                      !.identifiers =
                          ParseIdentifiers(handler.instanceIdentifiers),
                      !.instanceFilter =
                          ParseIdentifiers(handler.instanceIdentifiers),
                      !.collectorInstance = "FilteredCollector",
                      !.pc = "registered"]
    /\ UNCHANGED outsideHandler

\* handler.ServeHTTP(w, r) gathers the registry: Collect of the collector
\* calls the operation of the region manager and only logs its error
Collect ==
    /\ handler.pc = "registered"
    /\ handler' =
          IF handler.collectorInstance = "Collector"
          THEN [handler EXCEPT !.collectCalls = @ + 1,
                               !.CollectMetrics = @ + 1,
                               !.pc = "collected"]
          ELSE [handler EXCEPT !.collectCalls = @ + 1,
                               !.CollectMetricsForInstances = @ + 1,
                               !.pc = "collected"]
    /\ UNCHANGED outsideHandler

\* the gathered families are written with status 200
ServeHTTP ==
    /\ handler.pc = "collected"
    /\ handler' = [handler EXCEPT !.code = 200, !.pc = "completed"]
    /\ UNCHANGED outsideHandler

HandlerNext ==
    \/ UseCollector
    \/ TooManyIdentifiers
    \/ UseFilteredCollector
    \/ Collect
    \/ ServeHTTP

\* one request for /metrics
HandlerSpec == HandlerStart /\ [][HandlerNext]_vars

\* ------------------------------------------------ the processing configuration
\* MaximumConcurrency = 60 and DefaultConcurrency = 4
MaximumConcurrency == 60
DefaultConcurrency == 4

\* the largest concurrency of a config.yml that is followed, apart from Huge
MaxConfigured == 62

\* discovery.processing.concurrency in config.yml: no key (or no file), or a
\* value that is zero, negative, small, or very large
ConfiguredConcurrency ==
    {[present |-> FALSE, value |-> 0]} \cup
    {[present |-> TRUE, value |-> n] :
        n \in (-2..MaxConfigured) \cup {Huge, -Huge}}

\* yaml.Unmarshal and createDefaultConfig: a key that is absent leaves the
\* zero value of int
Unmarshalled(configured) ==
    IF configured.present THEN configured.value ELSE 0

\* if config.Discovery.Processing.Concurrency == 0 { ... = DefaultConcurrency }
applyDefaults(Concurrency) ==
    IF Concurrency = 0 THEN DefaultConcurrency ELSE Concurrency

\* GetOrDefault(value, min, max, defaultValue, fieldName)
GetOrDefaultMutant(value, min, max, defaultValue) ==
    IF value > max THEN defaultValue ELSE value
GetOrDefault(value, min, max, defaultValue) ==
    IF value < min \/ value > max THEN defaultValue ELSE value

\* concurrency := GetOrDefault(config.Concurrency, 1, DefaultConcurrency,
\*                             DefaultConcurrency, "concurrency")
parseProcessingConfig(Concurrency) ==
    GetOrDefault(Concurrency, 1, DefaultConcurrency, DefaultConcurrency)

\* config.yml is about to be loaded
ConfigStart ==
    /\ OthersStart
    /\ retry = Idle
    /\ filt = Idle
    /\ registry = Idle
    /\ batch = Idle
    /\ collect = Idle
    /\ handler = Idle
    /\ stats = Idle
    /\ selection = Idle
    /\ caches = Idle
    /\ multi = Idle
    /\ config \in [pc : {"loading"}, configured : ConfiguredConcurrency,
                   Concurrency : {0}, parsed : {0}, maxConcurrency : {0},
                   semaphore : {0}, queueSize : {0}, workers : {0}]

\* LoadConfig: the file is read and unmarshalled, or there is no file and
\* createDefaultConfig() is taken
Unmarshal ==
    /\ config.pc = "loading"
    /\ config' = [config EXCEPT !.Concurrency = Unmarshalled(config.configured),
                                !.pc = "unmarshalled"]
    /\ UNCHANGED outsideConfig

\* applyDefaults(&config)
ApplyDefaults ==
    /\ config.pc = "unmarshalled"
    /\ config' = [config EXCEPT !.Concurrency = applyDefaults(@),
                                !.pc = "defaulted"]
    /\ UNCHANGED outsideConfig

\* parsedValidateConfig returns the parsed configuration
ConfigAccepted ==
    /\ config.pc = "defaulted"
    /\ config' = [config EXCEPT
                     !.parsed = parseProcessingConfig(config.Concurrency),
                     !.pc = "accepted"]
    /\ UNCHANGED outsideConfig

\* parsedValidateConfig returns the error of another section (instances,
\* metrics or export): LoadConfig fails and main exits
ConfigRejected ==
    /\ config.pc = "defaulted"
    /\ config' = [config EXCEPT !.pc = "rejected"]
    /\ UNCHANGED outsideConfig

\* createSingleRegionManager: NewSingleRegionManager(region, ...,
\* config.Discovery.Processing.Concurrency)
CreateSingleRegionManager ==
    /\ config.pc = "accepted"
    /\ config' = [config EXCEPT !.maxConcurrency = config.parsed,
                                !.pc = "created"]
    /\ UNCHANGED outsideConfig

\* createSingleRegionManager returns the error of a client or a manager
CreateFails ==
    /\ config.pc = "accepted"
    /\ config' = [config EXCEPT !.pc = "failed"]
    /\ UNCHANGED outsideConfig

\* a scrape of the manager: make(chan struct{}, srm.maxConcurrency),
\* queueSize := srm.maxConcurrency * 10 and one worker for every
\* i < srm.maxConcurrency
ScrapeStarts ==
    /\ config.pc = "created"
    /\ config' = [config EXCEPT
                     !.semaphore = config.maxConcurrency,
                     !.queueSize = config.maxConcurrency * QueueFactor,
                     !.workers = IF config.maxConcurrency > 0
                                 THEN config.maxConcurrency ELSE 0,
                     !.pc = "scraping"]
    /\ UNCHANGED outsideConfig

ConfigNext ==
    \/ Unmarshal
    \/ ApplyDefaults
    \/ ConfigAccepted
    \/ ConfigRejected
    \/ CreateSingleRegionManager
    \/ CreateFails
    \/ ScrapeStarts

\* from config.yml to the first scrape of the region manager
ConfigSpec == ConfigStart /\ [][ConfigNext]_vars

\* ------------------------------------------- determineIncludedStatistics
\* A string is written as the sequence of its pieces: a word, the dot, and
\* in a pattern also the operators of a regular expression.  "\\." is the
\* escaped dot, ".*" any text, "^" and "$" the anchors, and "\\" a backslash
\* that the removal of a suffix has left without the dot it escaped.

\* models.GetAllStatistics()
GetAllStatistics == <<"avg", "min", "max", "sum">>

\* the metrics of an instance
StatMetricNames ==
    {<<"db", ".", "SQL", ".", "queries">>, <<"os", ".", "cpu">>}

\* name patterns of discovery.metrics.include: "db.SQL.queries.max",
\* "^db\.SQL\..*\.max$", "db\.SQL\.queries\.max$", ".*\.sum$", "^db\.",
\* ".*.max" and "db\.SQL\.queries\.max"
NamePatterns ==
    {<<"db", ".", "SQL", ".", "queries", ".", "max">>,
     <<"^", "db", "\\.", "SQL", "\\.", ".*", "\\.", "max", "$">>,
     <<"db", "\\.", "SQL", "\\.", "queries", "\\.", "max", "$">>,
     <<".*", "\\.", "sum", "$">>,
     <<"^", "db", "\\.">>,
     <<".*", ".", "max">>,
     <<"db", "\\.", "SQL", "\\.", "queries", "\\.", "max">>}

\* the longest list of name patterns that is followed
MaxPatterns == 2

\* metricConfig.Include["name"]
IncludeLists == UNION {[1..n -> NamePatterns] : n \in 0..MaxPatterns}

\* regexp.Compile(pattern) fails: a backslash ends the pattern
CompileFails(pattern) == pattern # <<>> /\ pattern[Len(pattern)] = "\\"

\* the text after its first k pieces
Drop(text, k) == SubSeq(text, k + 1, Len(text))

\* the pattern matches at the start of the text
RECURSIVE MatchHere(_, _)
MatchHere(pattern, text) ==
    IF pattern = <<>> THEN TRUE
    ELSE IF Head(pattern) = "$" THEN Len(pattern) = 1 /\ text = <<>>
    ELSE IF Head(pattern) = ".*"
         THEN \E k \in 0..Len(text) : MatchHere(Tail(pattern), Drop(text, k))
    ELSE IF text = <<>> THEN FALSE
    ELSE IF Head(pattern) \in {"\\.", "."}
         THEN Head(text) = "." /\ MatchHere(Tail(pattern), Tail(text))
    ELSE Head(pattern) = Head(text) /\ MatchHere(Tail(pattern), Tail(text))

\* regex.MatchString(text): the pattern matches somewhere in the text
MatchString(pattern, text) ==
    IF pattern # <<>> /\ Head(pattern) = "^"
    THEN MatchHere(Tail(pattern), text)
    ELSE \E k \in 0..Len(text) : MatchHere(pattern, Drop(text, k))

\* isRegexPattern: the string holds one of * + ? ^ $ { } ( ) | [ \ ]
isRegexPattern(pattern) ==
    \E i \in DOMAIN pattern : pattern[i] \in {"^", "$", ".*", "\\.", "\\"}

\* patternMatchesMetric(pattern, metricName)
patternMatchesMetric(pattern, metricName) ==
    \/ pattern = metricName
    \/ /\ isRegexPattern(pattern)
       /\ ~CompileFails(pattern)
       /\ MatchString(pattern, metricName)

\* strings.HasSuffix(pattern, "." + statistic): the pattern ends with a dot,
\* escaped or not, and the statistic
HasSuffix(pattern, statistic) ==
    /\ Len(pattern) >= 2
    /\ pattern[Len(pattern)] = statistic
    /\ pattern[Len(pattern) - 1] \in {".", "\\."}

\* strings.TrimSuffix(pattern, "." + statistic): of an escaped dot the
\* backslash stays
TrimSuffix(pattern, statistic) ==
    IF ~HasSuffix(pattern, statistic) THEN pattern
    ELSE SubSeq(pattern, 1, Len(pattern) - 2) \o
         (IF pattern[Len(pattern) - 1] = "\\." THEN <<"\\">> ELSE <<>>)

\* extractMetricAndStatistic(pattern): the first statistic of
\* GetAllStatistics() that is a suffix of the pattern
extractMetricAndStatistic(pattern) ==
    LET found == {k \in DOMAIN GetAllStatistics :
                     HasSuffix(pattern, GetAllStatistics[k])}
    IN  IF found = {} THEN <<"", "">>
        ELSE LET statistic ==
                     GetAllStatistics[CHOOSE k \in found :
                                          \A j \in found : k <= j]
             IN  <<TrimSuffix(pattern, statistic), statistic>>

\* the statistic an include pattern contributes for the metric, "" if none
ExplicitStatistic(metricName, pattern) ==
    LET extracted == extractMetricAndStatistic(pattern)
    IN  IF /\ extracted[1] # ""
           /\ extracted[1] # <<>>
           /\ extracted[2] # ""
           /\ patternMatchesMetric(extracted[1], metricName)
        THEN extracted[2]
        ELSE ""

\* extractExplicitStatisticsFromInclude(metricName, patterns)
RECURSIVE extractExplicitStatisticsFromInclude(_, _)
extractExplicitStatisticsFromInclude(metricName, namePatterns) ==
    IF namePatterns = <<>> THEN <<>>
    ELSE LET stat == ExplicitStatistic(metricName, Head(namePatterns))
             rest == extractExplicitStatisticsFromInclude(metricName,
                                                          Tail(namePatterns))
         IN  IF stat = "" THEN rest ELSE <<stat>> \o rest

\* matchesIncludePatterns(metricName, patterns): a name pattern without a
\* statistic matches the metric
matchesIncludePatterns(metricName, namePatterns) ==
    \E i \in DOMAIN namePatterns :
        /\ extractMetricAndStatistic(namePatterns[i])[2] = ""
        /\ patternMatchesMetric(namePatterns[i], metricName)

\* statistics = append(statistics, stat) for a stat not seen before
RECURSIVE AppendUnseen(_, _)
AppendUnseen(statistics, more) ==
    IF more = <<>> THEN statistics
    ELSE IF \E i \in DOMAIN statistics : statistics[i] = Head(more)
         THEN AppendUnseen(statistics, Tail(more))
         ELSE AppendUnseen(Append(statistics, Head(more)), Tail(more))

\* determineIncludedStatistics(metricName, metricConfig)
determineIncludedStatistics(metricName, Statistic, Include) ==
    IF Len(Include) = 0 THEN <<Statistic>>
    ELSE LET explicitStats ==
                 extractExplicitStatisticsFromInclude(metricName, Include)
             statistics == AppendUnseen(<<Statistic>>, explicitStats)
         IN  IF matchesIncludePatterns(metricName, Include)
             THEN AppendUnseen(statistics, <<Statistic>>)
             ELSE statistics

\* BuildMetricDefinitionMap is about to ask for the statistics of a metric
StatsStart ==
    /\ OthersStart
    /\ retry = Idle
    /\ filt = Idle
    /\ registry = Idle
    /\ batch = Idle
    /\ collect = Idle
    /\ handler = Idle
    /\ config = Idle
    /\ selection = Idle
    /\ caches = Idle
    /\ multi = Idle
    /\ stats \in [pc : {"calling"}, metricName : StatMetricNames,
                  Statistic : {"avg", "max"}, Include : IncludeLists,
                  statistics : {<<>>}]

\* return determineIncludedStatistics(metricName, metricConfig)
DetermineReturns ==
    /\ stats.pc = "calling"
    /\ stats' = [stats EXCEPT
                    !.statistics =
                        determineIncludedStatistics(stats.metricName,
                                                    stats.Statistic,
                                                    stats.Include),
                    !.pc = "returned"]
    /\ UNCHANGED outsideStats

StatsNext == DetermineReturns

\* one call of determineIncludedStatistics
StatsSpec == StatsStart /\ [][StatsNext]_vars

\* ------------------------------------------- CollectMetricsForInstances
\* what instanceManager.GetInstances can return: lists of cached instances,
\* each instance written as its Identifier
CachedLists == {<<>>, <<"db-a", "db-b">>, <<"db-a", "db-b", "db-c">>}

\* the identifiers of the instances that can be cached
CachedIdentifiers == {"db-a", "db-b", "db-c"}

\* what a request can name: identifiers of cached instances, of no instance,
\* in another case, and the empty identifier
SuppliedIdentifiers == {"db-a", "db-c", "db-x", "DB-A", ""}

\* the longest list of identifiers that is followed
MaxSupplied == 2

\* the parameter instanceIdentifiers
SuppliedLists == UNION {[1..n -> SuppliedIdentifiers] : n \in 0..MaxSupplied}

\* identifierMap[identifier] = models.Instance{} for every identifier
identifierMap(instanceIdentifiers) ==
    {instanceIdentifiers[k] : k \in DOMAIN instanceIdentifiers}

\* the loop over allInstances that appends the instances whose Identifier
\* is a key of identifierMap
filteredInstancesMutant(allInstances, instanceIdentifiers) == allInstances
filteredInstances(allInstances, instanceIdentifiers) ==
    LET exists(identifier) ==
            identifier \in identifierMap(instanceIdentifiers)
    IN  SelectSeq(allInstances, exists)

\* the numbers of batches a catalog can have
SelectionBatchCounts == {0, 1, 2}

\* CollectMetricsForInstances is called
SelectionStart ==
    /\ OthersStart
    /\ retry = Idle
    /\ filt = Idle
    /\ registry = Idle
    /\ batch = Idle
    /\ collect = Idle
    /\ handler = Idle
    /\ config = Idle
    /\ stats = Idle
    /\ caches = Idle
    /\ multi = Idle
    /\ selection \in [pc : {"calling"}, allInstances : CachedLists,
                      instanceIdentifiers : SuppliedLists,
                      filteredInstances : {<<>>},
                      catalogCalls : {[i \in CachedIdentifiers |-> 0]},
                      batches : {[i \in CachedIdentifiers |-> 0]},
                      dataCalls : {[i \in CachedIdentifiers |-> 0]},
                      errors : {0}, ret : {Nil}]

\* srm.instanceManager.GetInstances(ctx) fails: return err
SelectionGetInstancesFails ==
    /\ selection.pc = "calling"
    /\ selection' = [selection EXCEPT !.ret = DescribeErr, !.pc = "returned"]
    /\ UNCHANGED outsideSelection

\* GetInstances returns the cached list; the map and the filtered list are
\* built and collectMetricsWithQueue(ctx, filteredInstances, ch) is entered
SelectInstances ==
    /\ selection.pc = "calling"
    /\ selection' =
          [selection EXCEPT
              !.filteredInstances =
                  filteredInstances(selection.allInstances,
                                    selection.instanceIdentifiers),
              !.pc = "fan-out"]
    /\ UNCHANGED outsideSelection

\* a catalog task of fetchMetricBatchesInParallel calls GetMetricBatches for
\* its instance, which fails or returns the batches of the instance
SelectionCatalog(k) ==
    /\ selection.pc = "fan-out"
    /\ k \in DOMAIN selection.filteredInstances
    /\ LET instance == selection.filteredInstances[k]
       IN  /\ selection.catalogCalls[instance] = 0
           /\ \/ selection' = [selection EXCEPT
                                  !.catalogCalls[instance] = @ + 1,
                                  !.errors = @ + 1]
              \/ \E n \in SelectionBatchCounts :
                    selection' = [selection EXCEPT
                                     !.catalogCalls[instance] = @ + 1,
                                     !.batches[instance] = n]
    /\ UNCHANGED outsideSelection

\* wg.Wait(): every catalog task is done and the queue is drained next
SelectionFanoutDone ==
    /\ selection.pc = "fan-out"
    /\ \A k \in DOMAIN selection.filteredInstances :
          selection.catalogCalls[selection.filteredInstances[k]] > 0
    /\ selection' = [selection EXCEPT !.pc = "drain"]
    /\ UNCHANGED outsideSelection

\* a worker calls CollectMetricsForBatch for a request of the queue, which
\* the producer made of a batch of a filtered instance
SelectionData(k) ==
    /\ selection.pc = "drain"
    /\ k \in DOMAIN selection.filteredInstances
    /\ LET instance == selection.filteredInstances[k]
       IN  /\ selection.dataCalls[instance] < selection.batches[instance]
           /\ \E failed \in {0, 1} :
                 selection' = [selection EXCEPT
                                  !.dataCalls[instance] = @ + 1,
                                  !.errors = @ + failed]
    /\ UNCHANGED outsideSelection

\* the workers are done: return errors[0], or nil without errors
SelectionReturn ==
    /\ selection.pc = "drain"
    /\ \A k \in DOMAIN selection.filteredInstances :
          LET instance == selection.filteredInstances[k]
          IN  selection.dataCalls[instance] = selection.batches[instance]
    /\ selection' = [selection EXCEPT
                        !.ret = IF selection.errors > 0 THEN FetchErr ELSE Nil,
                        !.pc = "returned"]
    /\ UNCHANGED outsideSelection

SelectionNext ==
    \/ SelectionGetInstancesFails
    \/ SelectInstances
    \/ \E k \in DOMAIN selection.allInstances : SelectionCatalog(k)
    \/ SelectionFanoutDone
    \/ \E k \in DOMAIN selection.allInstances : SelectionData(k)
    \/ SelectionReturn

\* one call of CollectMetricsForInstances under context.Background()
SelectionSpec == SelectionStart /\ [][SelectionNext]_vars

\* ----------------------------------------- the two caches of one instance
\* the configured TTLs: the instance list is kept for a shorter time than
\* the catalogs, or for as long
ConfiguredInstanceTTL == 1..InstanceTTL
ConfiguredMetadataTTL == MetadataTTL..(MetadataTTL + 1)

\* Metrics: &models.Metrics{MetadataTTL: ...} of a discovered instance
FreshMetrics(ttl) ==
    [MetricsDetails |-> "nil", MetricsLastUpdated |-> ZeroTime,
     MetadataTTL |-> ttl]

\* Instances == nil || InstancesLastUpdated.IsZero() ||
\*     time.Now().After(InstancesLastUpdated.Add(InstanceTTL))
InstanceListStale(c) ==
    \/ c.Instances = "nil"
    \/ c.InstancesLastUpdated = ZeroTime
    \/ c.now > c.InstancesLastUpdated + c.InstanceTTL

\* MetricsDetails == nil || MetricsLastUpdated.IsZero() ||
\*     time.Now().After(MetricsLastUpdated.Add(MetadataTTL))
CatalogStale(c) ==
    \/ c.Metrics.MetricsDetails = "nil"
    \/ c.Metrics.MetricsLastUpdated = ZeroTime
    \/ c.now > c.Metrics.MetricsLastUpdated + c.Metrics.MetadataTTL

\* NewRDSInstanceManager: nothing is cached and no scrape is running
CachesStart ==
    /\ OthersStart
    /\ retry = Idle
    /\ filt = Idle
    /\ registry = Idle
    /\ batch = Idle
    /\ collect = Idle
    /\ handler = Idle
    /\ config = Idle
    /\ stats = Idle
    /\ selection = Idle
    /\ multi = Idle
    /\ \E instanceTTL \in ConfiguredInstanceTTL,
          metadataTTL \in ConfiguredMetadataTTL :
          caches = [pc |-> "idle", now |-> StartTime,
                    InstanceTTL |-> instanceTTL, MetadataTTL |-> metadataTTL,
                    Instances |-> "nil", InstancesLastUpdated |-> ZeroTime,
                    Metrics |-> FreshMetrics(metadataTTL),
                    refreshedAt |-> NilTime]

\* time passes
CachesTick ==
    /\ caches.now < StartTime + MaxElapsed
    /\ caches' = [caches EXCEPT !.now = @ + 1]
    /\ UNCHANGED outsideCaches

\* a scrape calls GetInstances: the list is refreshed if it is stale and
\* returned as cached otherwise
CachesGetInstances ==
    /\ caches.pc = "idle"
    /\ caches' = [caches EXCEPT !.pc = IF InstanceListStale(caches)
                                       THEN "describing"
                                       ELSE "catalog"]
    /\ UNCHANGED outsideCaches

\* discoverInstances fails: GetInstances and the scrape return the error
CachesDescribeFails ==
    /\ caches.pc = "describing"
    /\ caches' = [caches EXCEPT !.pc = "idle"]
    /\ UNCHANGED outsideCaches

\* discoverInstances returns the instance, built anew with its Metrics; the
\* list is replaced and stamped
CachesDescribeReturns ==
    /\ caches.pc = "describing"
    /\ caches' = [caches EXCEPT !.Instances = "cached",
                                !.Metrics = FreshMetrics(caches.MetadataTTL),
                                !.InstancesLastUpdated = caches.now,
                                !.pc = "catalog"]
    /\ UNCHANGED outsideCaches

\* the catalog task of the instance calls getMetrics: the catalog is listed
\* if it is stale and returned as cached otherwise
CachesGetMetrics ==
    /\ caches.pc = "catalog"
    /\ caches' = [caches EXCEPT !.pc = IF CatalogStale(caches)
                                       THEN "listing"
                                       ELSE "idle"]
    /\ UNCHANGED outsideCaches

\* getAvailableMetrics fails: getMetrics returns the error
CachesListFails ==
    /\ caches.pc = "listing"
    /\ caches' = [caches EXCEPT !.pc = "idle"]
    /\ UNCHANGED outsideCaches

\* getAvailableMetrics returns: the catalog is replaced and stamped
CachesListReturns ==
    /\ caches.pc = "listing"
    /\ caches' = [caches EXCEPT
                     !.Metrics = [@ EXCEPT !.MetricsDetails = "map",
                                           !.MetricsLastUpdated = caches.now],
                     !.refreshedAt = caches.now,
                     !.pc = "idle"]
    /\ UNCHANGED outsideCaches

CachesNext ==
    \/ CachesTick
    \/ CachesGetInstances
    \/ CachesDescribeFails
    \/ CachesDescribeReturns
    \/ CachesGetMetrics
    \/ CachesListFails
    \/ CachesListReturns

\* scrapes that follow each other on one instance that stays discovered
CachesSpec == CachesStart /\ [][CachesNext]_vars

\* ------------------------------------------------ refreshes of one manager
\* no call of GetInstances has been made
InstancesUntouched ==
    /\ returned = NoReturn
    /\ \A s \in Scrapes : ipc[s] = "idle"

\* no call of GetMetricBatches has been made
MetricsUntouched ==
    /\ mreturned = NoMetricsReturn
    /\ \A t \in Scrapes : mpc[t] = "idle"

\* calls that do not overlap, all of them of GetInstances or all of them of
\* GetMetricBatches for one instance
RefreshNext ==
    \/ MetricsUntouched /\ InstNext
    \/ InstancesUntouched /\ CatalogNext

\* the refreshes of the instance cache, or of the metrics cache
RefreshSpec == ManagersStart /\ [][RefreshNext]_vars

\* ---------------------------------------------------- overlapping scrapes
\* GetInstances as called by overlapping scrapes: the handler shares one
\* region manager and nothing serialises the requests
OverlapNext ==
    \/ \E s \in Scrapes : GetInstancesEnter(s)
    \/ \E s \in Scrapes : DescribeFails(s)
    \/ \E s \in Scrapes : DescribeReturns(s)
    \/ \E s \in Scrapes : StoreInstances(s)
    \/ \E s \in Scrapes : StampInstances(s)
    \/ \E s \in Scrapes : ReturnInstances(s)
    \/ Tick

\* calls of GetInstances by overlapping scrapes; no filter is configured
OverlapSpec == Init /\ [][OverlapNext]_vars

\* ------------------------------------------------------ MultiRegionManager
\* the most regional managers a multi-region manager holds
MaxRegions == 3

\* the keys of multiRegionManager.RegionManagers
RegionSets == {1..n : n \in 1..MaxRegions}

\* the error the manager of a region returns
RegionErr(r) == <<"region", r, 0>>

\* the loop body starts the call of the next regional manager only when the
\* call before it has returned
PreviousReturned(status) == \A r \in DOMAIN status : status[r] # "running"

\* if err != nil { return err }
AfterRegionErrorMutant == "continue"
AfterRegionError == "return"

\* CollectMetrics or CollectMetricsForInstances of the multi-region manager
\* is called; failing are the regions whose manager returns an error
MultiStart ==
    /\ OthersStart
    /\ retry = Idle
    /\ filt = Idle
    /\ registry = Idle
    /\ batch = Idle
    /\ collect = Idle
    /\ handler = Idle
    /\ config = Idle
    /\ stats = Idle
    /\ selection = Idle
    /\ caches = Idle
    /\ \E regions \in RegionSets, failing \in SUBSET (1..MaxRegions) :
          /\ failing \subseteq regions
          /\ multi \in [pc : {"loop"},
                        operation : {"CollectMetrics",
                                     "CollectMetricsForInstances"},
                        failing : {failing},
                        status : {[r \in regions |-> "unvisited"]},
                        visited : {<<>>}, ret : {Nil}]

\* for _, regionManager := range multiRegionManager.RegionManagers: the next
\* manager, in the order of the map's iteration, is called
RegionCalled(r) ==
    /\ multi.pc = "loop"
    /\ r \in DOMAIN multi.status
    /\ multi.status[r] = "unvisited"
    /\ PreviousReturned(multi.status)
    /\ multi' = [multi EXCEPT !.status[r] = "running",
                              !.visited = Append(@, r)]
    /\ UNCHANGED outsideMulti

\* the call of the regional manager returns nil, or an error that the
\* multi-region manager returns at once
RegionReturns(r) ==
    /\ multi.pc = "loop"
    /\ r \in DOMAIN multi.status
    /\ multi.status[r] = "running"
    /\ multi' =
          IF r \in multi.failing
          THEN IF AfterRegionError = "return"
               THEN [multi EXCEPT !.status[r] = "failed",
                                  !.ret = RegionErr(r),
                                  !.pc = "returned"]
               ELSE [multi EXCEPT !.status[r] = "failed"]
          ELSE [multi EXCEPT !.status[r] = "done"]
    /\ UNCHANGED outsideMulti

\* the loop is over: return nil
MultiReturnsNil ==
    /\ multi.pc = "loop"
    /\ \A r \in DOMAIN multi.status :
          multi.status[r] \in {"done", "failed"}
    /\ multi' = [multi EXCEPT !.ret = Nil, !.pc = "returned"]
    /\ UNCHANGED outsideMulti

MultiNext ==
    \/ \E r \in 1..MaxRegions : RegionCalled(r)
    \/ \E r \in 1..MaxRegions : RegionReturns(r)
    \/ MultiReturnsNil

\* one call of an operation of the multi-region manager
MultiSpec == MultiStart /\ [][MultiNext]_vars

\* ------------------------------------------------------------- properties
Req(i, j) == [instance |-> instances[i], metricsBatch |-> j]

\* collect_batch calls in progress
InProgress == {w \in DOMAIN wpc : wpc[w] \in {"fetching", "emitting"}}

\* get_metric_batches calls in progress
Calling == {i \in 1..NumInstances : catpc[i] = "calling"}

\* the instances whose catalog fetch failed, by index
Failed == {i \in 1..NumInstances : results[i].err # Nil}
FirstFailed == CHOOSE i \in Failed : \A k \in Failed : i <= k

AllExited ==
    /\ mainpc = "returned"
    /\ prodpc = "exited"
    /\ closed
    /\ \A w \in Workers : wpc[w] = "exited"

\* C1: when a scrape whose context was never cancelled has returned, every
\* batch of every instance whose catalog fetch succeeded was passed to
\* CollectMetricsForBatch exactly once, whatever errors other batches
\* returned, and no batch of an instance whose catalog fetch failed was.
C1_EveryBatchOnce ==
    (mainpc = "returned" /\ ~cancelled) =>
        \A i \in 1..NumInstances : \A j \in 1..MaxBatches :
            collectCalls[Req(i, j)] =
                IF results[i].err = Nil /\ j <= results[i].batches THEN 1 ELSE 0

C1_Witness ==
    /\ mainpc = "returned"
    /\ ~cancelled
    /\ \E i \in 1..NumInstances : results[i].err # Nil
    /\ \E i \in 1..NumInstances : results[i].batches = MaxBatches
    /\ \E k \in 1..Len(errors) : errors[k][1] = "data"

\* C2: when the fan-out has finished under a context that was not
\* cancelled, GetMetricBatches was called exactly once for every instance
\* and results[i] is the result of instances[i], whichever instances failed.
C2_OneResultPerInstance ==
    (mainpc # "fanout" /\ ~cancelled) =>
        \A i \in 1..NumInstances :
            /\ getCalls[i] = 1
            /\ results[i].instance = instances[i]
            /\ results[i].err \in {Nil, CatalogErr(instances[i])}

C2_Witness ==
    /\ mainpc = "drain"
    /\ ~cancelled
    /\ \E i \in 1..NumInstances : results[i].err # Nil
    /\ \E i \in 1..NumInstances : results[i].err = Nil /\ results[i].batches > 0

\* C3: with a context that is never cancelled, provider calls that return
\* and a sink that is read, the scrape eventually returns with the queue
\* closed and the producer and all workers exited.
C3_ScrapeReturns == <>AllExited

C3_Witness ==
    /\ AllExited
    /\ \A i \in 1..NumInstances : results[i].batches = MaxBatches
    /\ NumInstances * MaxBatches > queueSize

\* C4: once the context is cancelled the producer and every worker
\* eventually exit and the scheduler returns.
C4_CancelTerminates == cancelled ~> AllExited

\* C5: a worker blocked sending a sample to the sink stops being blocked
\* once the context is cancelled, even if the sink is never read.
C5_EmitObservesCancel ==
    \A w \in Workers : (cancelled /\ wpc[w] = "emitting") ~> (wpc[w] # "emitting")

\* C6: the scheduler returns only after the producer and all workers have
\* exited; it returns nil exactly when no error was recorded and otherwise
\* the error recorded first.
C6_FirstRecordedError ==
    mainpc = "returned" =>
        /\ prodpc = "exited"
        /\ \A w \in Workers : wpc[w] = "exited"
        /\ (ret = Nil) <=> (errors = <<>>)
        /\ errors # <<>> => ret = errors[1]

C6_Witness ==
    /\ mainpc = "returned"
    /\ Len(errors) >= 2
    /\ errors[1] # errors[Len(errors)]
    /\ ret = errors[1]

\* C7 as stated, in a scrape whose context is never cancelled: if some
\* catalog fetch failed, the scheduler returns the catalog error of the
\* first failed instance in instance order, whatever data-fetch errors the
\* batches of other instances produced.
C7_CatalogErrorWins ==
    (mainpc = "returned" /\ ~cancelled /\ Failed # {}) =>
        ret = results[FirstFailed].err

\* C7 as amended: in a scrape whose context is never cancelled, if some
\* catalog fetch failed, the scheduler returns the catalog error of the
\* first failed instance in instance order or a data-fetch error of a batch
\* of an instance that precedes it, and it returns that catalog error
\* whenever no batch of a preceding instance failed.
C7_CatalogErrorUnlessEarlierData ==
    (mainpc = "returned" /\ ~cancelled /\ Failed # {}) =>
        LET earlier == {instances[i] : i \in 1..(FirstFailed - 1)}
            dataOfEarlier(e) == e[1] = "data" /\ e[2] \in earlier
        IN  /\ ret = results[FirstFailed].err \/ dataOfEarlier(ret)
            /\ (\A k \in 1..Len(errors) : ~dataOfEarlier(errors[k]))
                  => ret = results[FirstFailed].err

C7_Witness ==
    /\ mainpc = "returned"
    /\ ~cancelled
    /\ Failed # {}
    /\ FirstFailed > 1
    /\ ret[1] = "data"
    /\ results[FirstFailed].err \in {errors[k] : k \in 1..Len(errors)}

\* C8: if the context was cancelled while catalog tasks or queued work
\* items were outstanding, the scheduler returns the context error.
C8_CancelReturnsCtxErr ==
    (mainpc = "returned" /\ cancelOutstanding) => ret = CtxErr

\* C9: at most maxConcurrency GetMetricBatches calls are in progress.
C9_CatalogConcurrency == Cardinality(Calling) <= maxConcurrency

C9_Witness ==
    /\ Cardinality(Calling) = maxConcurrency
    /\ \E i \in 1..NumInstances : catpc[i] = "acquire"

\* C10: at most maxConcurrency CollectMetricsForBatch calls are in progress.
C10_CollectConcurrency == Cardinality(InProgress) <= maxConcurrency

C10_Witness ==
    /\ Cardinality(InProgress) = maxConcurrency
    /\ Len(requestQueue) >= maxConcurrency

\* C11 as stated: a catalog task that has not yet acquired the semaphore when
\* the context is already cancelled never goes on to call GetMetricBatches.
C11_CancelledNeverCalls ==
    [][\A i \in 1..NumInstances :
          (cancelled /\ catpc[i] = "acquire") => catpc'[i] # "calling"]_vars

\* C11 as amended: a catalog task that leaves the select while the context
\* is cancelled either records the cancellation error for its own instance
\* without calling GetMetricBatches or, only when the semaphore has a free
\* slot, acquires it and calls GetMetricBatches once; with a full semaphore
\* recording the cancellation is its only step.
C11_CancelledRecordsOrAcquires ==
    [][\A i \in 1..NumInstances :
          (cancelled /\ catpc[i] = "acquire" /\ catpc'[i] # "acquire") =>
              \/ /\ catpc'[i] = "done"
                 /\ results'[i] = [instance |-> instances[i], batches |-> 0,
                                   err |-> CtxErr]
                 /\ getCalls'[i] = getCalls[i]
                 /\ semaphore' = semaphore
              \/ /\ catpc'[i] = "calling"
                 /\ Cardinality(Calling) < maxConcurrency
                 /\ getCalls'[i] = getCalls[i] + 1]_vars

C11_Witness ==
    /\ cancelled
    /\ \E i \in 1..NumInstances :
          /\ catpc[i] = "done"
          /\ getCalls[i] = 0
          /\ results[i].err = CtxErr
    /\ \E k \in 1..NumInstances : catpc[k] = "calling"

\* C12 as stated: once the context is cancelled the queue never grows.
C12_NoEnqueueAfterCancel ==
    [][cancelled => Len(requestQueue') <= Len(requestQueue)]_vars

\* C12 as amended: once the context is cancelled the queue grows only by a
\* send of the still running producer into free capacity; a producer that
\* stands at the select with a full queue can only return, closing the
\* queue; and nothing is enqueued once the producer has returned.
C12_EnqueueOnlyIntoFreeCapacity ==
    [][cancelled =>
          /\ Len(requestQueue') > Len(requestQueue) =>
                (prodpc = "run" /\ ~closed /\ Len(requestQueue) < queueSize)
          /\ (ProducerAtSelect /\ Len(requestQueue) >= queueSize
                /\ <<prodpc, prodI, prodJ>>' # <<prodpc, prodI, prodJ>>) =>
                (prodpc' = "exited" /\ closed' /\ requestQueue' = requestQueue)
          /\ prodpc = "exited" => Len(requestQueue') <= Len(requestQueue)]_vars

C12_Witness ==
    /\ cancelled
    /\ prodpc = "exited"
    /\ closed
    /\ prodI <= NumInstances
    /\ results[prodI].err = Nil
    /\ prodJ > 1
    /\ prodJ <= results[prodI].batches
    /\ Len(requestQueue) < queueSize

\* the scrapes whose catalog task is refreshing the metrics cache: between
\* the decision to refresh and the write of MetricsLastUpdated
Refreshing == {t \in Scrapes : mpc[t] \in {"listing", "details", "list", "stamp"}}

\* C13: at no time do two tasks refresh the metrics cache of the same
\* instance concurrently, also when two scrapes overlap.
C13_SingleRefresher == Cardinality(Refreshing) <= 1

\* C14: when the HTTP request of a scrape is cancelled, the context the
\* scheduler was handed for that scrape is cancelled.
C14_RequestCancelsScrape == requestCancelled => cancelled

\* C15: a call of GetInstances goes to the provider exactly when the cache
\* is empty or now > InstancesLastUpdated + InstanceTTL at the time it
\* looks; a call that finds the cache fresh makes no provider call, writes
\* neither the list nor the timestamp and returns the cached list.
C15_RefreshIffStale ==
    [][\A s \in Scrapes :
          /\ (ipc[s] = "idle" /\ ipc'[s] # "idle") =>
                /\ ipc'[s] \in {"describing", "cached"}
                /\ ipc'[s] = "describing" <=>
                      \/ Instances = <<>>
                      \/ now > InstancesLastUpdated + InstanceTTL
          /\ (ipc[s] = "cached" /\ ipc'[s] # "cached") =>
                /\ ipc'[s] = "idle"
                /\ returned' = [scrape |-> s, instances |-> Instances,
                                err |-> Nil, refreshed |-> FALSE,
                                from |-> cacheFrom]
          /\ ipc[s] = "cached" =>
                UNCHANGED <<Instances, InstancesLastUpdated>>]_vars

C15_Witness ==
    /\ returned.err = Nil
    /\ ~returned.refreshed
    /\ returned.instances # <<>>
    /\ returned.instances = Instances
    /\ now = InstancesLastUpdated + InstanceTTL

\* the records of an enumeration that are eligible and pass the filter:
\* every field present, identifiers non-empty, creation time non-zero,
\* Performance Insights enabled, engine valid, instance filter passed
Eligible(record) ==
    /\ record.Engine # NilString
    /\ record.DBInstanceStatus # NilString
    /\ record.DbiResourceId \notin {NilString, ""}
    /\ record.DBInstanceIdentifier \notin {NilString, ""}
    /\ record.InstanceCreateTime \notin {NilTime, ZeroTime}
    /\ record.PerformanceInsightsEnabled = "true"
    /\ IsValid(NewEngine(record.Engine))
    /\ ShouldIncludeInstance(BuildInstance(record))

EligibleRecords(e) ==
    IF e = 0 THEN <<>> ELSE SelectSeq(Enumerations[e], Eligible)

\* the provider record an instance was made of
RecordOf(instance, e) ==
    {k \in 1..Len(Enumerations[e]) :
        /\ Enumerations[e][k].DbiResourceId = instance.ResourceID
        /\ Enumerations[e][k].DBInstanceIdentifier = instance.Identifier
        /\ Enumerations[e][k].InstanceCreateTime = instance.CreationTime
        /\ Enumerations[e][k].Engine # NilString
        /\ NewEngine(Enumerations[e][k].Engine) = instance.Engine}

Smaller(a, b) == IF a < b THEN a ELSE b

\* C16: after a refresh GetInstances returns min(n, maxInstances) of the n
\* eligible, filter-passing instances of the enumeration, each once, in
\* ascending order of creation time, and no instance left out is older
\* than one returned.
C16_OldestPrefix ==
    (returned.refreshed /\ returned.err = Nil) =>
        LET res == returned.instances
            el == EligibleRecords(returned.from)
            chosen == {x \in 1..Len(el) :
                         \E k \in 1..Len(res) : res[k] = BuildInstance(el[x])}
        IN  /\ Len(res) = Smaller(Len(el), maxInstances)
            /\ Len(res) <= maxInstances
            /\ \A k \in 1..(Len(res) - 1) :
                  res[k].CreationTime <= res[k + 1].CreationTime
            /\ \A k \in 1..Len(res) :
                  \E x \in 1..Len(el) : res[k] = BuildInstance(el[x])
            /\ \A j, k \in 1..Len(res) : j # k => res[j] # res[k]
            /\ \A x \in 1..Len(el) : x \notin chosen =>
                  \A k \in 1..Len(res) :
                     res[k].CreationTime <= el[x].InstanceCreateTime

C16_Witness ==
    /\ returned.refreshed
    /\ returned.err = Nil
    /\ Len(EligibleRecords(returned.from)) > maxInstances
    /\ Len(returned.instances) = maxInstances
    /\ \E k \in 1..Len(EligibleRecords(returned.from)) :
          EligibleRecords(returned.from)[k].InstanceCreateTime >
              returned.instances[maxInstances].CreationTime

\* the eligible records in ascending order of creation time, records of
\* equal creation time in the order of the enumeration
RECURSIVE StableOrder(_)
StableOrder(records) ==
    IF records = <<>> THEN <<>>
    ELSE LET first == CHOOSE k \in 1..Len(records) :
                         \A j \in 1..Len(records) :
                            \/ records[k].InstanceCreateTime
                                  < records[j].InstanceCreateTime
                            \/ /\ records[k].InstanceCreateTime
                                     = records[j].InstanceCreateTime
                               /\ k <= j
             rest == [j \in 1..(Len(records) - 1) |->
                         IF j < first THEN records[j] ELSE records[j + 1]]
         IN  <<records[first]>> \o StableOrder(rest)

\* C17: instances of equal creation time are returned in the order of the
\* provider's enumeration, so the list returned after a refresh is the
\* prefix of the stably sorted eligible instances.
C17_TiesInEnumerationOrder ==
    (returned.refreshed /\ returned.err = Nil) =>
        LET stable == StableOrder(EligibleRecords(returned.from))
        IN  \A k \in 1..Len(returned.instances) :
               returned.instances[k] = BuildInstance(stable[k])

\* C18: every instance GetInstances returns, and every cached instance, has
\* a non-empty resource id, a non-empty identifier and a valid engine, and
\* was made of a provider record with Performance Insights enabled,
\* whichever instance filter is configured.
C18_ReturnedInstancesUsable ==
    /\ \A k \in 1..Len(returned.instances) :
          LET instance == returned.instances[k]
          IN  /\ instance.ResourceID # ""
              /\ instance.Identifier # ""
              /\ IsValid(instance.Engine)
              /\ RecordOf(instance, returned.from) # {}
              /\ \A x \in RecordOf(instance, returned.from) :
                    Enumerations[returned.from][x].PerformanceInsightsEnabled
                        = "true"
    /\ \A k \in 1..Len(Instances) :
          /\ Instances[k].ResourceID # ""
          /\ Instances[k].Identifier # ""
          /\ IsValid(Instances[k].Engine)

C18_Witness ==
    /\ returned.refreshed
    /\ returned.err = Nil
    /\ returned.instances # <<>>
    /\ \E k \in 1..Len(Enumerations[returned.from]) :
          LET record == Enumerations[returned.from][k]
          IN  /\ ExtractOk(record)
              /\ record.PerformanceInsightsEnabled # "true"
              /\ ShouldIncludeInstance(BuildInstance(record))

\* C19: a call of getMetrics goes to the provider exactly when the cached
\* definitions are absent, empty, or now > MetricsLastUpdated + MetadataTTL
\* at the time it looks.
C19_ListIffAbsentEmptyOrExpired ==
    [][\A t \in Scrapes :
          (mpc[t] = "idle" /\ mpc'[t] # "idle") =>
              (mpc'[t] = "listing" <=>
                  \/ MetricsDetails.nil
                  \/ MetricsDetails.map = {}
                  \/ now > MetricsLastUpdated + MetadataTTL)]_vars

\* {d.name + "." + s : d in definitions, s in d.statistics}
Flattening(definitions) ==
    UNION {{<<d.Name, d.Statistics[k]>> : k \in 1..Len(d.Statistics)} :
              d \in definitions}

\* C20: whenever a task that is not refreshing the metrics cache is about
\* to read it, MetricsList holds exactly the strings name.statistic of the
\* cached definitions, each once.
C20_ListedIsFlattening ==
    \A t \in Scrapes : mpc[t] = "cached" =>
        /\ {MetricsList[k] : k \in 1..Len(MetricsList)}
              = Flattening(MetricsDetails.map)
        /\ Len(MetricsList) = Cardinality(Flattening(MetricsDetails.map))

\* the metrics of listing l that the configuration includes
IncludedOf(l) ==
    {metric \in BuildMetricDefinitionMap(Listings[l]) :
        ShouldIncludeMetric(metric)}

\* C21 as stated: whenever the catalog a call of get_metric_batches refreshed
\* is empty, because the provider listed no metric or because every metric
\* was filtered out, the call returns no error and an empty sequence of
\* batches
C21_EmptyCatalogNoError ==
    LET l == mreturned.listing
    IN  (l # 0 /\ (Listings[l] = <<>> \/ IncludedOf(l) = {}))
            => (mreturned.err = Nil /\ mreturned.batches = <<>>)

\* C21 amended: a call of get_metric_batches whose refresh listed metrics
\* none of which is kept returns no error and an empty sequence of batches;
\* a call whose refresh listed no metric at all returns an error and no batch
C21_EmptyCatalog ==
    LET l == mreturned.listing
    IN  l # 0 =>
            /\ (Listings[l] # <<>> /\ IncludedOf(l) = {})
                   => (mreturned.err = Nil /\ mreturned.batches = <<>>)
            /\ Listings[l] = <<>>
                   => (mreturned.err = NoMetricsErr /\ mreturned.batches = <<>>)

\* a refresh whose listing named metrics, all of them filtered out, returned
C21_Witness ==
    /\ mreturned.listing # 0
    /\ Listings[mreturned.listing] # <<>>
    /\ BuildMetricDefinitionMap(Listings[mreturned.listing]) # {}
    /\ mreturned.refreshed
    /\ mreturned.err = Nil
    /\ mreturned.batches = <<>>

\* C22: with_retry invokes op max_retries + 1 times when op always fails
\* and the context is never cancelled, once when op succeeds on its first
\* call, and never again after a success; it never invokes op more than
\* max_retries + 1 times
C22_CallCounts ==
    /\ retry.opCalls <= retry.maxRetries + 1
    /\ retry.opFailures \in {retry.opCalls, retry.opCalls - 1}
    /\ retry.opFailures < retry.opCalls => (retry.pc = "returned" /\ retry.ret = Nil)
    /\ (retry.pc = "returned" /\ retry.ret = Nil) => retry.opCalls = retry.opFailures + 1
    /\ (retry.pc = "returned" /\ retry.ret = Nil /\ retry.opFailures = 0) => retry.opCalls = 1
    /\ (retry.pc = "returned" /\ ~retry.ctxDone /\ retry.opFailures = retry.opCalls)
           => (retry.opCalls = retry.maxRetries + 1 /\ retry.ret = OpErr)

\* op failed on every attempt of a call with the managers' limit, and the
\* call returned its error
C22_Witness ==
    /\ retry.pc = "returned"
    /\ ~retry.ctxDone
    /\ retry.maxRetries = 3
    /\ retry.opFailures = 4
    /\ retry.ret = OpErr

\* the factor min(2^k, 5) of the specification
CapFactor(k) == IF k >= 3 THEN 5 ELSE 2^k

\* C23: the delay computed after failed attempt k, which the goroutine then
\* sleeps, is base_delay * min(2^k, 5) for every attempt index
C23_SleepIsCappedBackoff ==
    retry.pc \in {"select", "sleeping", "interrupted", "fired"}
        => /\ retry.delay = retry.baseDelay * CapFactor(retry.attempt)
           /\ (retry.pc = "select" \/ retry.remaining <= retry.delay)

\* C24: a cancellation that arrives while with_retry sleeps takes it out of
\* the sleep; from there it returns the context error without any time of
\* the delay passing and without invoking op, and a call that has returned
\* invokes nothing
C24_CancelEndsSleep ==
    [][/\ (retry.pc = "sleeping" /\ ~retry.ctxDone /\ retry.ctxDone') => retry.pc' = "interrupted"
       /\ retry.pc = "interrupted"
             => /\ retry.pc' \in {"interrupted", "returned"}
                /\ retry.opCalls' = retry.opCalls
                /\ retry.remaining' = retry.remaining
                /\ retry.pc' = "returned" => retry.ret' = CtxErr
       /\ retry.pc = "returned"
             => (retry.pc' = "returned" /\ retry.opCalls' = retry.opCalls /\ retry.ret' = retry.ret)]_vars

\* the call returned the context error with part of the delay still to pass
C24_Witness ==
    /\ retry.pc = "returned"
    /\ retry.ret = CtxErr
    /\ retry.remaining > 0
    /\ retry.remaining < retry.delay
    /\ retry.attempt < retry.maxRetries

\* the filter key resolves for the object, as a field or else as a tag
\* through the tag. prefix, to a value that a regex of the list matches
KeyMatches(obj, patterns, filterKey) ==
    /\ FieldExists(obj, filterKey)
    /\ \E regex \in patterns[filterKey] : FieldValue(obj, filterKey) \in regex

\* some exclude key of the filter matches the object
Excluded == \E k \in DOMAIN filt.ExcludePatterns :
                KeyMatches(FilterObjects[filt.obj], filt.ExcludePatterns, k)

\* every include key of the filter matches the object
AllIncluded == \A k \in DOMAIN filt.IncludePatterns :
                   KeyMatches(FilterObjects[filt.obj], filt.IncludePatterns, k)

\* C25: if some exclude key resolves to a value that matches a regex of its
\* list, should_include returns false whatever the include patterns are
C25_ExcludeWins ==
    (filt.pc = "returned" /\ Excluded) => ~filt.result

\* an object that an exclude key matches and every include key matches was
\* refused
C25_Witness ==
    /\ filt.pc = "returned"
    /\ Excluded
    /\ DOMAIN filt.IncludePatterns # {}
    /\ AllIncluded
    /\ ~filt.result

\* C26 as stated: with a non-empty include map, should_include returns true
\* if and only if every include key resolves and matches
C26_IncludeIffAllMatch ==
    (filt.pc = "returned" /\ DOMAIN filt.IncludePatterns # {}) => (filt.result <=> AllIncluded)

\* C26 amended: with a non-empty include map, should_include returns true if
\* and only if every include key resolves and matches and no exclude key
\* matches
C26_IncludeIffAllMatchUnlessExcluded ==
    (filt.pc = "returned" /\ DOMAIN filt.IncludePatterns # {})
        => (filt.result <=> (AllIncluded /\ ~Excluded))

\* an object that one of two include keys does not match was refused though
\* nothing excludes it
C26_Witness ==
    /\ filt.pc = "returned"
    /\ Cardinality(DOMAIN filt.IncludePatterns) = 2
    /\ \E k \in DOMAIN filt.IncludePatterns :
          KeyMatches(FilterObjects[filt.obj], filt.IncludePatterns, k)
    /\ ~AllIncluded
    /\ ~Excluded
    /\ ~FilterObjects[filt.obj].nil
    /\ ~filt.result

\* the key under which a catalog task resolves a description
KeyOf(t) == <<registry.engine[t], ToLower(registry.metricName[t])>>

\* C27: the canonical description a task obtains for (engine, lower-cased
\* name) is the first non-empty description recorded under that key,
\* whatever descriptions the calls supply (here: as long as no reset
\* operation has emptied the registry)
C27_FirstNonEmptyWins ==
    \A t \in Scrapes :
        (registry.pc[t] = "resolved" /\ ~registry.resetCalled /\ registry.firstNonEmpty[KeyOf(t)] # Absent)
            => registry.canonicalDescription[t] = registry.firstNonEmpty[KeyOf(t)]

\* the entry of the registry for an engine and a lower-cased name
Entry(e, name) ==
    IF registry.registries[e] = 0 THEN Absent ELSE registry.descriptions[registry.registries[e]][name]

\* no entry of the registry is overwritten or removed in this step
EntriesKept ==
    \A e \in Engines, name \in LowerNames :
        Entry(e, name) # Absent => Entry(e, name)' = Entry(e, name)

\* every task that holds a resolved description holds the registry's entry
SameForAll ==
    \A t \in Scrapes :
        registry.pc[t] = "resolved" => registry.canonicalDescription[t] = Entry(KeyOf(t)[1], KeyOf(t)[2])

\* C28 as stated: under any interleaving of the catalog tasks and any
\* sequence of registry operations no entry is overwritten or removed once
\* written, and every task resolving a key obtains the entry's description
C28_NeverOverwrittenOrRemoved ==
    [][EntriesKept /\ SameForAll']_vars

\* C28 amended: under any interleaving of the catalog tasks, as long as no
\* reset operation of the registry has been called, no entry is overwritten
\* or removed once written, and every task resolving a key obtains the
\* entry's description
C28_KeptUntilReset ==
    [][~registry.resetCalled' => (EntriesKept /\ SameForAll')]_vars

\* two tasks that resolved one key under different spellings of the name
\* hold the same description, the first that was supplied
C28_Witness ==
    /\ ~registry.resetCalled
    /\ \A t \in Scrapes : registry.pc[t] = "resolved"
    /\ \E t, u \in Scrapes :
          /\ KeyOf(t) = KeyOf(u)
          /\ registry.metricName[t] # registry.metricName[u]
          /\ registry.canonicalDescription[t] = registry.canonicalDescription[u]
          /\ registry.canonicalDescription[t] = registry.firstNonEmpty[KeyOf(t)]

\* the in-order concatenation of a sequence of lists
RECURSIVE Concatenation(_)
Concatenation(lists) ==
    IF lists = <<>> THEN <<>>
    ELSE Head(lists) \o Concatenation(Tail(lists))

\* C29: batching a list of n names with size 15 returns ceil(n/15) batches
\* whose in-order concatenation is the list; every batch but the last has 15
\* names and the last has between 1 and 15
C29_BatchesPartitionList ==
    (batch.pc = "returned" /\ batch.batchSize = BatchSize) =>
        /\ Len(batch.batches) = (Len(batch.metricNames) + BatchSize - 1) \div BatchSize
        /\ Concatenation(batch.batches) = batch.metricNames
        /\ \A b \in 1..(Len(batch.batches) - 1) : Len(batch.batches[b]) = BatchSize
        /\ Len(batch.batches) > 0 =>
              /\ Len(batch.batches[Len(batch.batches)]) >= 1
              /\ Len(batch.batches[Len(batch.batches)]) <= BatchSize

\* a list was cut into two full batches and a shorter last one
C29_Witness ==
    /\ batch.pc = "returned"
    /\ batch.batchSize = BatchSize
    /\ Len(batch.batches) = 3
    /\ Len(batch.batches[1]) = BatchSize
    /\ Len(batch.batches[2]) = BatchSize
    /\ Len(batch.batches[3]) < BatchSize

\* the datapoints whose formatting succeeds
Formattable(metricDatum) == ~ConvertFails(metricDatum)

\* C30: collect_batch returns an error only when the data fetch failed; a
\* datapoint whose formatting fails is skipped, and every datapoint of the
\* batch whose formatting succeeds is emitted, in order
C30_OnlyFetchErrorsReturned ==
    collect.pc = "returned" =>
        /\ collect.ret # Nil <=> collect.fetchFailed
        /\ collect.ret \in {Nil, FetchErr}
        /\ ~collect.fetchFailed => collect.emitted = SelectSeq(collect.metricData, Formattable)

\* a batch whose first datapoint could not be formatted returned no error
\* and emitted a later datapoint
C30_Witness ==
    /\ collect.pc = "returned"
    /\ collect.ret = Nil
    /\ Len(collect.metricData) = MaxData
    /\ ConvertFails(collect.metricData[1])
    /\ ~ConvertFails(collect.metricData[MaxData])
    /\ collect.emitted # <<>>

\* the number of separators in the value of the identifiers parameter
Separators(s) == Cardinality({i \in 1..Len(s) : s[i] = ","})

\* C31: a request whose identifiers parameter lists more than 5
\* comma-separated identifiers (at least 5 separators) invokes no collector,
\* hence neither operation of the region manager, and is answered with 400
C31_TooManyIs400 ==
    Separators(handler.instanceIdentifiers) >= MaxInstanceIdentifiers =>
        /\ handler.collectorInstance = "none"
        /\ handler.collectCalls = 0
        /\ handler.CollectMetrics = 0
        /\ handler.CollectMetricsForInstances = 0
        /\ handler.code \in {0, 400}
        /\ handler.pc = "completed" => handler.code = 400

\* a request with six identifiers, one of them blank, has been answered
C31_Witness ==
    /\ handler.pc = "completed"
    /\ Len(handler.identifiers) = MaxInstanceIdentifiers + 1
    /\ \E i \in DOMAIN handler.identifiers : handler.identifiers[i] = <<"a">>
    /\ handler.code = 400

\* C32: the parsed max_concurrency lies in [1, 60], and a configured
\* concurrency within [1, 60] is used unchanged
C32_InRangeUnchanged ==
    config.pc \in {"accepted", "created", "scraping"} =>
        /\ config.parsed \in 1..MaximumConcurrency
        /\ (/\ config.configured.present
            /\ config.configured.value \in 1..MaximumConcurrency)
           => config.parsed = config.configured.value

\* C39: whatever concurrency the configuration contains (absent, zero,
\* negative or very large), the scheduler that the factory builds from an
\* accepted configuration has maxConcurrency >= 1, so that its semaphore has
\* positive capacity, its queue has room and at least one worker is launched
C39_PositiveConcurrency ==
    /\ config.pc \in {"created", "scraping"} => config.maxConcurrency >= 1
    /\ config.pc = "scraping" =>
          /\ config.semaphore >= 1
          /\ config.queueSize >= 1
          /\ config.workers >= 1

\* a scrape has started on a scheduler built from a configuration whose
\* concurrency was negative
C39_Witness ==
    /\ config.pc = "scraping"
    /\ config.configured.present
    /\ config.configured.value < 0
    /\ config.workers = DefaultConcurrency

\* the statistic that ends the pattern, before a closing anchor; "" if none
SuffixStatistic(pattern) ==
    LET p == IF pattern # <<>> /\ pattern[Len(pattern)] = "$"
             THEN SubSeq(pattern, 1, Len(pattern) - 1)
             ELSE pattern
    IN  IF /\ Len(p) >= 2
           /\ p[Len(p) - 1] \in {".", "\\."}
           /\ \E k \in DOMAIN GetAllStatistics : GetAllStatistics[k] = p[Len(p)]
        THEN p[Len(p)]
        ELSE ""

\* the pattern selects the metric: it matches the name of the metric
\* followed by the dot and the statistic
Selects(pattern, metricName, statistic) ==
    /\ ~CompileFails(pattern)
    /\ MatchString(pattern, metricName \o <<".", statistic>>)

\* the statistics of the returned list
Requested == {stats.statistics[i] : i \in DOMAIN stats.statistics}

\* C33: for an include name pattern whose suffix is a valid statistic, a
\* metric the pattern selects is requested with the default statistic and
\* with the suffix statistic (default avg, pattern ^db\.SQL\..*\.max$:
\* db.SQL.queries is requested as .avg and as .max)
C33_DefaultAndSuffixStatistic ==
    stats.pc = "returned" =>
        \A i \in DOMAIN stats.Include :
            LET pattern == stats.Include[i]
                statistic == SuffixStatistic(pattern)
            IN  (statistic # "" /\ Selects(pattern, stats.metricName, statistic))
                => {stats.Statistic, statistic} \subseteq Requested

\* the cached instances whose identifier is one of the supplied identifiers
Supplied ==
    {selection.allInstances[k] : k \in DOMAIN selection.allInstances} \cap
    {selection.instanceIdentifiers[k] :
        k \in DOMAIN selection.instanceIdentifiers}

\* C34: CollectMetricsForInstances fetches the catalog and the data of the
\* cached instances whose identifier is in the supplied set and of no other
\* instance: no other instance is ever fetched, and at the return the
\* catalog of each of them has been fetched once and every batch of a
\* catalog once
C34_ExactlySupplied ==
    /\ \A i \in CachedIdentifiers \ Supplied :
          selection.catalogCalls[i] = 0 /\ selection.dataCalls[i] = 0
    /\ (selection.pc = "returned" /\ selection.ret # DescribeErr) =>
          \A i \in Supplied :
              /\ selection.catalogCalls[i] = 1
              /\ selection.dataCalls[i] = selection.batches[i]

\* a call with two names, one of a cached instance and one of no instance,
\* has fetched the catalog and two batches of the one and nothing of the
\* other cached instances
C34_Witness ==
    /\ selection.pc = "returned"
    /\ Supplied = {"db-c"}
    /\ Len(selection.instanceIdentifiers) = 2
    /\ selection.dataCalls["db-c"] = 2
    /\ selection.catalogCalls["db-a"] = 0

\* every task the scheduler launched has terminated
Terminated ==
    /\ \A i \in 1..NumInstances : catpc[i] = "done"
    /\ prodpc = "exited"
    /\ \A w \in Workers : wpc[w] = "exited"

\* C35: when the scheduler returns, with or without cancellation, every
\* catalog task, the producer and every worker has terminated, and once it
\* has returned no task moves again: no provider call is made and no worker
\* is sending a sample to the sink
C35_NothingRunsAfterReturn ==
    [][mainpc' = "returned" =>
          /\ Terminated'
          /\ mainpc = "returned" =>
                UNCHANGED <<catpc, prodpc, wpc, getCalls, collectCalls>>]_vars

\* a cancelled scrape has returned after a worker had fetched a batch
C35_Witness ==
    /\ mainpc = "returned"
    /\ cancelled
    /\ \E req \in DOMAIN collectCalls : collectCalls[req] > 0

\* C36: for an instance that stays discovered, a catalog refreshed at time
\* t is not listed from the provider again before t + MetadataTTL, however
\* often the instance list is refreshed
C36_CatalogKeptForMetadataTTL ==
    [][(/\ caches.pc # "listing"
        /\ caches'.pc = "listing"
        /\ caches.refreshedAt # NilTime)
       => caches.now >= caches.refreshedAt + caches.MetadataTTL]_vars

\* the refresh of the instance list by scrape s fails with this step
EnumerationFails(s) == ipc[s] = "describing" /\ ipc'[s] = "idle"

\* the refresh of the catalog by task t fails with this step
ListingFails(t) ==
    /\ mpc[t] = "listing"
    /\ mpc'[t] = "idle"
    /\ mreturned'.err = ListErr

\* C37: a refresh that fails after its retries leaves the cache it was
\* refreshing and the timestamp of that cache as they were before the call:
\* no step of the call, from the test of the cache to the failure, changes
\* them, and the cache is still stale after the failure, so that the next
\* call refreshes again
C37_FailedRefreshKeepsCache ==
    [][/\ \A s \in Scrapes :
             (ipc'[s] = "describing" \/ EnumerationFails(s)) =>
                /\ UNCHANGED <<Instances, InstancesLastUpdated>>
                /\ EnumerationFails(s) => InstancesStale'
       /\ \A t \in Scrapes :
             (mpc'[t] = "listing" \/ ListingFails(t)) =>
                /\ UNCHANGED <<MetricsDetails, MetricsList, MetricsLastUpdated>>
                /\ ListingFails(t) => MetricsStale']_vars

\* the refresh of a list of instances that had expired has failed
C37_Witness ==
    /\ returned.err = DescribeErr
    /\ Instances # <<>>
    /\ now > InstancesLastUpdated + InstanceTTL
    /\ \A s \in Scrapes : ipc[s] = "idle"

\* the scrapes that are writing the instance cache: between the assignment
\* of the list and the assignment of the timestamp
Replacing == {s \in Scrapes : ipc[s] \in {"store", "stamp"}}

\* C38: when two scrapes overlap, at most one of them writes the instance
\* cache (list and timestamp) at a time, and no scrape returns the list
\* while another scrape is replacing it
C38_OneWriterNoReader ==
    /\ Cardinality(Replacing) <= 1
    /\ \A s \in Scrapes :
          ipc[s] \in {"refreshed", "cached"} => Replacing \subseteq {s}

\* the regions whose manager has been invoked
Visited == {multi.visited[k] : k \in DOMAIN multi.visited}

\* C40: the multi-region manager invokes its regional managers one at a
\* time, and it returns the first error a regional manager returns at once:
\* the failing manager is the last one invoked, the managers invoked before
\* it returned nil and the others are not invoked at all; without an error
\* every manager is invoked once
C40_SequentialFirstError ==
    /\ Cardinality({r \in DOMAIN multi.status :
                       multi.status[r] = "running"}) <= 1
    /\ \A r \in DOMAIN multi.status :
          multi.status[r] = "unvisited" <=> r \notin Visited
    /\ multi.pc = "returned" =>
          IF \E k \in DOMAIN multi.visited : multi.visited[k] \in multi.failing
          THEN /\ multi.ret = RegionErr(multi.visited[Len(multi.visited)])
               /\ \A k \in 1..(Len(multi.visited) - 1) :
                     multi.status[multi.visited[k]] = "done"
               /\ multi.status[multi.visited[Len(multi.visited)]] = "failed"
          ELSE /\ multi.ret = Nil
               /\ \A r \in DOMAIN multi.status : multi.status[r] = "done"

\* the second of three managers has failed and the third was not invoked
C40_Witness ==
    /\ multi.pc = "returned"
    /\ Len(multi.visited) = 2
    /\ Cardinality(DOMAIN multi.status) = MaxRegions
    /\ multi.ret = RegionErr(multi.visited[2])
    /\ \E r \in DOMAIN multi.status : multi.status[r] = "unvisited"

====
